---- MODULE Spec2Model ----
(***************************************************************************)
(* BaconTileSetter: the autotile generator of src/js/main.js (the tilegen  *)
(* part, lines 660-1021): 8-bit neighbour-code normalisation, the table of *)
(* the 47 canonical codes, the quadrant compositor and the 16- and 47-tile *)
(* atlas builders.                                                         *)
(*                                                                         *)
(* A canvas is modelled by its size, the ordered list of drawImage calls   *)
(* made on its 2d context and an error flag; the colour of a pixel is      *)
(* computed from that list by source-over compositing (PixelAt).           *)
(***************************************************************************)
EXTENDS Integers, Sequences, FiniteSets, TLC

VARIABLES
    raw8,       \* normalisation runs: the raw 8-bit neighbour code
    norm8,      \* normalize47(raw8) once pcNorm has left "input"
    index47,    \* bitmask8ToIndex47(raw8) once pcNorm is "indexed"
    pcNorm,     \* "input" -> "normalized" -> "indexed"
    images,     \* state.images: slot -> source raster or NoImage
    tileSize,   \* state.tileSize
    algorithm,  \* state.algorithm
    result,     \* state.result: NoResult or [canvas, tiles, algorithm]
    bm4,        \* compositor runs: the 4-bit cardinal code
    bm8,        \* compositor runs: the 8-bit code
    tile,       \* compositor runs: NoCanvas or the canvas composeQuadrants drew on
    package,    \* export runs: NoPackage or what exportUnityPackage put in the archive
    genTimer,   \* app: let genTimer, the id of the latest timer (0 is null)
    timers,     \* app: the timers set and not yet fired or cleared, [id, due] each
    now,        \* app: the clock, in milliseconds
    lastChange, \* app: the time of the latest scheduleAutoGenerate call
    runs,       \* app: the doGenerate runs so far, [time, algorithm, tileSize] each
    exported,   \* app: NoExport or the arguments of the latest export click
    grid,       \* painter: the 10 x 12 grid of tilemap.js, <<row, col>> -> BOOLEAN
    isDrawing,  \* painter: a stroke is in progress
    drawValue,  \* painter: the value the stroke paints
    event,      \* painter: the latest event handled, [type, cell]
    prevGrid,   \* painter: the grid before the latest event
    strokeValue,\* painter: the stroke under way, [open, onCell, value]
    mapCalls,   \* painter: the composeQuadrants calls of the latest renderTilemap
    lang,       \* language: state.lang, shown on the button
    i18nLang,   \* language: _lang of i18n.js
    docLang,    \* language: document.documentElement.lang
    storedLang, \* language: localStorage 'bts-lang'
    loads       \* language: the loadLang calls, [calls under way, started, failed]

normVars == <<raw8, norm8, index47, pcNorm>>
genVars  == <<images, tileSize, algorithm, result>>
compVars == <<bm4, bm8, tile>>
expVars  == <<package>>
appVars  == <<genTimer, timers, now, lastChange, runs, exported>>
gridVars == <<grid, isDrawing, drawValue, event, prevGrid, strokeValue, mapCalls>>
langVars == <<lang, i18nLang, docLang, storedLang, loads>>
uiVars   == <<expVars, appVars, gridVars, langVars>>
vars     == <<raw8, norm8, index47, pcNorm, images, tileSize, algorithm, result, bm4, bm8, tile,
              package, genTimer, timers, now, lastChange, runs, exported,
              grid, isDrawing, drawValue, event, prevGrid, strokeValue, mapCalls,
              lang, i18nLang, docLang, storedLang, loads>>

-----------------------------------------------------------------------------
(* Bounds of the model                                                     *)

\* largest tile size of a run (sizes are the even numbers from MaxTileSize - 4 up to it)
MaxTileSize == 10

-----------------------------------------------------------------------------
(* Bit arithmetic on 8-bit codes                                           *)

RECURSIVE BitAnd8(_, _, _)
\* a & b over the low n bits
BitAnd8(a, b, n) ==
    IF n = 0 THEN 0
    ELSE (IF a % 2 = 1 /\ b % 2 = 1 THEN 1 ELSE 0) + 2 * BitAnd8(a \div 2, b \div 2, n - 1)

\* a & b for codes in 0..255
And(a, b) == BitAnd8(a, b, 8)

\* ~m within 8 bits
Not8(m) == 255 - m

\* a | b for codes in 0..255
Or(a, b) == a + b - And(a, b)

\* truthiness of (b & m)
Has(b, m) == And(b, m) # 0

-----------------------------------------------------------------------------
(* AdjacencyNormalizer                                                     *)

N_  == 1
NE_ == 2
E_  == 4
SE_ == 8
S_  == 16
SW_ == 32
W_  == 64
NW_ == 128

\* mutant: the NE rule tests SE (0x08) where it should test E (0x04)
normalize47_NEtestsSE(b) ==
    LET b1 == IF ~(Has(b, 1) /\ Has(b, 8)) THEN And(b, Not8(2)) ELSE b
        b2 == IF ~(Has(b1, 4) /\ Has(b1, 16)) THEN And(b1, Not8(8)) ELSE b1
        b3 == IF ~(Has(b2, 16) /\ Has(b2, 64)) THEN And(b2, Not8(32)) ELSE b2
        b4 == IF ~(Has(b3, 64) /\ Has(b3, 1)) THEN And(b3, Not8(128)) ELSE b3
    IN  b4

\* mutant: the NE rule uses || where it should use &&
normalize47_NEor(b) ==
    LET b1 == IF ~(Has(b, 1) \/ Has(b, 4)) THEN And(b, Not8(2)) ELSE b
        b2 == IF ~(Has(b1, 4) /\ Has(b1, 16)) THEN And(b1, Not8(8)) ELSE b1
        b3 == IF ~(Has(b2, 16) /\ Has(b2, 64)) THEN And(b2, Not8(32)) ELSE b2
        b4 == IF ~(Has(b3, 64) /\ Has(b3, 1)) THEN And(b3, Not8(128)) ELSE b3
    IN  b4

\* mutant: the SE rule clears E (0x04) where it should clear SE (0x08)
normalize47_SEclearsE(b) ==
    LET b1 == IF ~(Has(b, 1) /\ Has(b, 4)) THEN And(b, Not8(2)) ELSE b
        b2 == IF ~(Has(b1, 4) /\ Has(b1, 16)) THEN And(b1, Not8(4)) ELSE b1
        b3 == IF ~(Has(b2, 16) /\ Has(b2, 64)) THEN And(b2, Not8(32)) ELSE b2
        b4 == IF ~(Has(b3, 64) /\ Has(b3, 1)) THEN And(b3, Not8(128)) ELSE b3
    IN  b4

\* mutant: the NW rule is missing
normalize47_noNW(b) ==
    LET b1 == IF ~(Has(b, 1) /\ Has(b, 4)) THEN And(b, Not8(2)) ELSE b
        b2 == IF ~(Has(b1, 4) /\ Has(b1, 16)) THEN And(b1, Not8(8)) ELSE b1
        b3 == IF ~(Has(b2, 16) /\ Has(b2, 64)) THEN And(b2, Not8(32)) ELSE b2
    IN  b3

normalize47(b) ==
    LET b1 == IF ~(Has(b, 1) /\ Has(b, 4)) THEN And(b, Not8(2)) ELSE b
        b2 == IF ~(Has(b1, 4) /\ Has(b1, 16)) THEN And(b1, Not8(8)) ELSE b1
        b3 == IF ~(Has(b2, 16) /\ Has(b2, 64)) THEN And(b2, Not8(32)) ELSE b2
        b4 == IF ~(Has(b3, 64) /\ Has(b3, 1)) THEN And(b3, Not8(128)) ELSE b3
    IN  b4

RECURSIVE SortAscending(_)
\* [...set].sort((a, z) => a - z)
SortAscending(set) ==
    IF set = {} THEN <<>>
    ELSE LET least == CHOOSE a \in set : \A z \in set : a <= z
         IN  <<least>> \o SortAscending(set \ {least})

RECURSIVE SortDescending(_)
\* [...set].sort((a, z) => z - a)
SortDescending(set) ==
    IF set = {} THEN <<>>
    ELSE LET most == CHOOSE a \in set : \A z \in set : a >= z
         IN  <<most>> \o SortDescending(set \ {most})

\* mutant: the comparator is reversed
build47Index_descending ==
    LET unique == {normalize47(b) : b \in 0..255}
    IN  SortDescending(unique)

build47Index ==
    LET unique == {normalize47(b) : b \in 0..255}
    IN  SortAscending(unique)

\* 1-based sequence; the code's index i is position i + 1
NORMALIZED_47 == build47Index

\* Array.prototype.indexOf: first 0-based position of v, -1 when absent
IndexOf(arr, v) ==
    IF \E i \in 1..Len(arr) : arr[i] = v
    THEN (CHOOSE i \in 1..Len(arr) : arr[i] = v /\ \A j \in 1..(i - 1) : arr[j] # v) - 1
    ELSE -1

\* mutant: the raw code is looked up without normalising it
bitmask8ToIndex47_raw(r) ==
    IndexOf(NORMALIZED_47, r)

bitmask8ToIndex47(r) ==
    LET norm == normalize47(r)
    IN  IndexOf(NORMALIZED_47, norm)

\* mutant: W is read from bit 0x80 (NW) where it should be read from 0x40
cardinals8to4_WfromNW(b8) ==
    (IF Has(b8, 1) THEN 1 ELSE 0) + (IF Has(b8, 4) THEN 2 ELSE 0)
        + (IF Has(b8, 16) THEN 4 ELSE 0) + (IF Has(b8, 128) THEN 8 ELSE 0)

cardinals8to4(b8) ==
    LET hasN == Has(b8, 1)
        hasE == Has(b8, 4)
        hasS == Has(b8, 16)
        hasW == Has(b8, 64)
    IN  Or(Or(IF hasN THEN 1 ELSE 0, IF hasE THEN 2 ELSE 0),
           Or(IF hasS THEN 4 ELSE 0, IF hasW THEN 8 ELSE 0))

-----------------------------------------------------------------------------
(* Rasters, canvases and the 2d context                                    *)

\* a slot holding null
NoImage == [width |-> 0, height |-> 0, px |-> [p \in {} |-> 0]]

SLOTS == {"main", "top", "bottom", "left", "right"}

Transparent == [r |-> 0, g |-> 0, b |-> 0, a |-> 0]

\* Math.round of the non-negative quotient n / d
Round(n, d) == (2 * n + d) \div (2 * d)

Max(a, b) == IF a >= b THEN a ELSE b

\* document.createElement('canvas') with the given size: nothing drawn yet
createCanvas(w, h) ==
    [width |-> w, height |-> h, ops |-> <<>>, error |-> FALSE]

\* ctx.drawImage(src, sx, sy, sw, sh, dx, dy, dw, dh); a null source throws
drawImage(ctx, src, sx, sy, sw, sh, dx, dy, dw, dh) ==
    IF src = NoImage
    THEN [ctx EXCEPT !.error = TRUE]
    ELSE [ctx EXCEPT !.ops = Append(@, [img |-> src, sx |-> sx, sy |-> sy, sw |-> sw, sh |-> sh,
                                         dx |-> dx, dy |-> dy, dw |-> dw, dh |-> dh])]

\* source-over compositing of pixel s on top of pixel d
Over(s, d) ==
    IF s.a = 0 THEN d
    ELSE IF s.a = 255 \/ d.a = 0 THEN s
    ELSE LET under == d.a * (255 - s.a)
             total == s.a * 255 + under
         IN  [r |-> Round(s.r * s.a * 255 + d.r * under, total),
              g |-> Round(s.g * s.a * 255 + d.g * under, total),
              b |-> Round(s.b * s.a * 255 + d.b * under, total),
              a |-> Round(total, 255)]

Covers(op, x, y) ==
    /\ op.dx <= x /\ x < op.dx + op.dw
    /\ op.dy <= y /\ y < op.dy + op.dh

\* the source pixel a drawImage call maps onto destination pixel (x, y)
Sample(op, x, y) ==
    op.img.px[<<op.sx + ((x - op.dx) * op.sw) \div op.dw,
                op.sy + ((y - op.dy) * op.sh) \div op.dh>>]

RECURSIVE Composite(_, _, _, _, _)
Composite(ops, k, x, y, acc) ==
    IF k > Len(ops) THEN acc
    ELSE Composite(ops, k + 1, x, y, Over(Sample(ops[k], x, y), acc))

\* colour of pixel (x, y) of a canvas: its draws composited in call order
PixelAt(canvas, x, y) ==
    Composite(SelectSeq(canvas.ops, LAMBDA op : Covers(op, x, y)), 1, x, y, Transparent)

\* ctx.getImageData(0, 0, w, h)
getImageData(canvas, w, h) ==
    [p \in (0..(w - 1)) \X (0..(h - 1)) |-> PixelAt(canvas, p[1], p[2])]

-----------------------------------------------------------------------------
(* QuadrantCompositor                                                      *)

\* mutant: the source quadrant is always the top-left one
blitQuadrant_topLeftSource(ctx, qx, qy, qs, qcol, qrow, src) ==
    IF src = NoImage THEN ctx
    ELSE drawImage(ctx, src, 0, 0, src.width \div 2, src.height \div 2, qx, qy, qs, qs)

\* mutant: the destination takes the source quadrant's size, so nothing is scaled
blitQuadrant_unscaled(ctx, qx, qy, qs, qcol, qrow, src) ==
    IF src = NoImage THEN ctx
    ELSE LET sw == src.width
             sh == src.height
         IN  drawImage(ctx, src, (qcol * sw) \div 2, (qrow * sh) \div 2, sw \div 2, sh \div 2,
                       qx, qy, sw \div 2, sh \div 2)

blitQuadrant(ctx, qx, qy, qs, qcol, qrow, src) ==
    IF src = NoImage THEN ctx
    ELSE LET sw == src.width
             sh == src.height
         IN  drawImage(ctx, src, (qcol * sw) \div 2, (qrow * sh) \div 2, sw \div 2, sh \div 2,
                       qx, qy, qs, qs)

\* mutant: the colours are averaged without the alpha weights, rounding down
BlendPixel_plainAverage(v, h) ==
    IF v.a > 0 /\ h.a > 0
    THEN [r |-> (v.r + h.r) \div 2,
          g |-> (v.g + h.g) \div 2,
          b |-> (v.b + h.b) \div 2,
          a |-> Max(v.a, h.a)]
    ELSE Transparent

\* one output pixel of the blend loop
BlendPixel(v, h) ==
    IF v.a > 0 /\ h.a > 0
    THEN LET total == v.a + h.a
         IN  [r |-> Round(v.r * v.a + h.r * h.a, total),
              g |-> Round(v.g * v.a + h.g * h.a, total),
              b |-> Round(v.b * v.a + h.b * h.a, total),
              a |-> Max(v.a, h.a)]
    ELSE Transparent

blendQuadrantEdges(ctx, qx, qy, qs, qcol, qrow, imgVert, imgHoriz) ==
    LET tmpV  == blitQuadrant(createCanvas(qs, qs), 0, 0, qs, qcol, qrow, imgVert)
        tmpH  == blitQuadrant(createCanvas(qs, qs), 0, 0, qs, qcol, qrow, imgHoriz)
        dataV == getImageData(tmpV, qs, qs)
        dataH == getImageData(tmpH, qs, qs)
        out   == [p \in (0..(qs - 1)) \X (0..(qs - 1)) |-> BlendPixel(dataV[p], dataH[p])]
        tmpOut == [width |-> qs, height |-> qs, px |-> out]
    IN  drawImage(ctx, tmpOut, 0, 0, qs, qs, qx, qy, qs, qs)

\* mutant: no early return, and the interior base is drawn without a null check
drawQuadrant_unguarded(ctx, qx, qy, qs, qcol, qrow, hasVert, hasHoriz, imgMain, imgVert, imgHoriz, innerCorner) ==
    IF hasVert /\ hasHoriz
    THEN drawImage(ctx, imgMain, 0, 0, 1, 1, qx, qy, qs, qs)
    ELSE LET c1 == IF imgMain # NoImage THEN blitQuadrant(ctx, qx, qy, qs, qcol, qrow, imgMain) ELSE ctx
             c2 == IF ~hasVert /\ imgVert # NoImage
                   THEN blitQuadrant(c1, qx, qy, qs, qcol, qrow, imgVert) ELSE c1
             c3 == IF ~hasHoriz /\ imgHoriz # NoImage
                   THEN blitQuadrant(c2, qx, qy, qs, qcol, qrow, imgHoriz) ELSE c2
         IN  c3

\* mutant: in an edge quadrant the horizontal edge is drawn before the vertical one
drawQuadrant_horizFirst(ctx, qx, qy, qs, qcol, qrow, hasVert, hasHoriz, imgMain, imgVert, imgHoriz, innerCorner) ==
    LET anyImg == IF imgMain # NoImage THEN imgMain
                  ELSE IF imgVert # NoImage THEN imgVert ELSE imgHoriz
    IN
    IF anyImg = NoImage THEN ctx
    ELSE IF hasVert /\ hasHoriz
    THEN LET base == blitQuadrant(ctx, qx, qy, qs, qcol, qrow, anyImg)
         IN  IF innerCorner
             THEN IF imgVert # NoImage /\ imgHoriz # NoImage
                  THEN blendQuadrantEdges(base, qx, qy, qs, qcol, qrow, imgVert, imgHoriz)
                  ELSE IF imgVert # NoImage
                  THEN blitQuadrant(base, qx, qy, qs, qcol, qrow, imgVert)
                  ELSE IF imgHoriz # NoImage
                  THEN blitQuadrant(base, qx, qy, qs, qcol, qrow, imgHoriz)
                  ELSE base
             ELSE base
    ELSE LET c1 == IF imgMain # NoImage THEN blitQuadrant(ctx, qx, qy, qs, qcol, qrow, imgMain) ELSE ctx
             c2 == IF ~hasHoriz /\ imgHoriz # NoImage
                   THEN blitQuadrant(c1, qx, qy, qs, qcol, qrow, imgHoriz) ELSE c1
             c3 == IF ~hasVert /\ imgVert # NoImage
                   THEN blitQuadrant(c2, qx, qy, qs, qcol, qrow, imgVert) ELSE c2
         IN  c3

drawQuadrant(ctx, qx, qy, qs, qcol, qrow, hasVert, hasHoriz, imgMain, imgVert, imgHoriz, innerCorner) ==
    LET anyImg == IF imgMain # NoImage THEN imgMain
                  ELSE IF imgVert # NoImage THEN imgVert ELSE imgHoriz
    IN
    IF anyImg = NoImage THEN ctx
    ELSE IF hasVert /\ hasHoriz
    THEN LET base == blitQuadrant(ctx, qx, qy, qs, qcol, qrow, anyImg)
         IN  IF innerCorner
             THEN IF imgVert # NoImage /\ imgHoriz # NoImage
                  THEN blendQuadrantEdges(base, qx, qy, qs, qcol, qrow, imgVert, imgHoriz)
                  ELSE IF imgVert # NoImage
                  THEN blitQuadrant(base, qx, qy, qs, qcol, qrow, imgVert)
                  ELSE IF imgHoriz # NoImage
                  THEN blitQuadrant(base, qx, qy, qs, qcol, qrow, imgHoriz)
                  ELSE base
             ELSE base
    ELSE LET c1 == IF imgMain # NoImage THEN blitQuadrant(ctx, qx, qy, qs, qcol, qrow, imgMain) ELSE ctx
             c2 == IF ~hasVert /\ imgVert # NoImage
                   THEN blitQuadrant(c1, qx, qy, qs, qcol, qrow, imgVert) ELSE c1
             c3 == IF ~hasHoriz /\ imgHoriz # NoImage
                   THEN blitQuadrant(c2, qx, qy, qs, qcol, qrow, imgHoriz) ELSE c2
         IN  c3

\* mutant: the right and bottom quadrants are offset by ts where it should be qs
composeQuadrants_offsetTs(ctx, tx, ty, ts, b4, imgs, b8) ==
    LET qs == ts \div 2
        hasN == Has(b4, 1)
        hasE == Has(b4, 2)
        hasS == Has(b4, 4)
        hasW == Has(b4, 8)
        hasNW == Has(b8, 128)
        hasNE == Has(b8, 2)
        hasSE == Has(b8, 8)
        hasSW == Has(b8, 32)
        on == b8 # 0
        c1 == drawQuadrant(ctx, tx, ty, qs, 0, 0, hasN, hasW, imgs["main"], imgs["top"], imgs["left"],
                           on /\ hasN /\ hasW /\ ~hasNW)
        c2 == drawQuadrant(c1, tx + ts, ty, qs, 1, 0, hasN, hasE, imgs["main"], imgs["top"], imgs["right"],
                           on /\ hasN /\ hasE /\ ~hasNE)
        c3 == drawQuadrant(c2, tx, ty + ts, qs, 0, 1, hasS, hasW, imgs["main"], imgs["bottom"], imgs["left"],
                           on /\ hasS /\ hasW /\ ~hasSW)
        c4 == drawQuadrant(c3, tx + ts, ty + ts, qs, 1, 1, hasS, hasE, imgs["main"], imgs["bottom"], imgs["right"],
                           on /\ hasS /\ hasE /\ ~hasSE)
    IN  c4

\* mutant: inner-corner mode does not depend on bm8 being given
composeQuadrants_alwaysInner(ctx, tx, ty, ts, b4, imgs, b8) ==
    LET qs == ts \div 2
        hasN == Has(b4, 1)
        hasE == Has(b4, 2)
        hasS == Has(b4, 4)
        hasW == Has(b4, 8)
        hasNW == Has(b8, 128)
        hasNE == Has(b8, 2)
        hasSE == Has(b8, 8)
        hasSW == Has(b8, 32)
        c1 == drawQuadrant(ctx, tx, ty, qs, 0, 0, hasN, hasW, imgs["main"], imgs["top"], imgs["left"],
                           hasN /\ hasW /\ ~hasNW)
        c2 == drawQuadrant(c1, tx + qs, ty, qs, 1, 0, hasN, hasE, imgs["main"], imgs["top"], imgs["right"],
                           hasN /\ hasE /\ ~hasNE)
        c3 == drawQuadrant(c2, tx, ty + qs, qs, 0, 1, hasS, hasW, imgs["main"], imgs["bottom"], imgs["left"],
                           hasS /\ hasW /\ ~hasSW)
        c4 == drawQuadrant(c3, tx + qs, ty + qs, qs, 1, 1, hasS, hasE, imgs["main"], imgs["bottom"], imgs["right"],
                           hasS /\ hasE /\ ~hasSE)
    IN  c4

composeQuadrants(ctx, tx, ty, ts, b4, imgs, b8) ==
    LET qs == ts \div 2
        hasN == Has(b4, 1)
        hasE == Has(b4, 2)
        hasS == Has(b4, 4)
        hasW == Has(b4, 8)
        hasNW == Has(b8, 128)
        hasNE == Has(b8, 2)
        hasSE == Has(b8, 8)
        hasSW == Has(b8, 32)
        on == b8 # 0
        c1 == drawQuadrant(ctx, tx, ty, qs, 0, 0, hasN, hasW, imgs["main"], imgs["top"], imgs["left"],
                           on /\ hasN /\ hasW /\ ~hasNW)
        c2 == drawQuadrant(c1, tx + qs, ty, qs, 1, 0, hasN, hasE, imgs["main"], imgs["top"], imgs["right"],
                           on /\ hasN /\ hasE /\ ~hasNE)
        c3 == drawQuadrant(c2, tx, ty + qs, qs, 0, 1, hasS, hasW, imgs["main"], imgs["bottom"], imgs["left"],
                           on /\ hasS /\ hasW /\ ~hasSW)
        c4 == drawQuadrant(c3, tx + qs, ty + qs, qs, 1, 1, hasS, hasE, imgs["main"], imgs["bottom"], imgs["right"],
                           on /\ hasS /\ hasE /\ ~hasSE)
    IN  c4

-----------------------------------------------------------------------------
(* TileAtlasBuilder and SchemeDispatcher                                   *)

\* TRUE; makes the model checker compute v before it goes on
Evaluated(v) == v = v

LABELS == <<"isolated", "cap-N", "cap-E", "corner-NE",
            "cap-S", "strip-V", "corner-SE", "T-E",
            "cap-W", "corner-NW", "strip-H", "T-N",
            "corner-SW", "T-W", "T-S", "cross">>

\* one iteration of the for loop of generate16
generate16Step(acc, bitmask, cols, imgs, ts) ==
    LET col == bitmask % cols
        row == bitmask \div cols
        tx  == col * ts
        ty  == row * ts
    IN  [canvas |-> composeQuadrants(acc.canvas, tx, ty, ts, bitmask, imgs, 0),
         tiles  |-> Append(acc.tiles,
                           [id |-> bitmask, bitmask |-> bitmask, x |-> tx, y |-> ty,
                            width |-> ts, height |-> ts, label |-> LABELS[bitmask + 1]])]

RECURSIVE generate16Loop(_, _, _, _, _, _)
\* the iterations bitmask = first .. last - 1 of the for loop, in order
\* (the range is halved so that the evaluation stays shallow)
generate16Loop(acc, first, last, cols, imgs, ts) ==
    IF ~(first < last) THEN acc
    ELSE IF last - first = 1 THEN generate16Step(acc, first, cols, imgs, ts)
    ELSE LET mid == (first + last) \div 2
             firstHalf == generate16Loop(acc, first, mid, cols, imgs, ts)
         IN  IF Evaluated(firstHalf)
             THEN generate16Loop(firstHalf, mid, last, cols, imgs, ts)
             ELSE firstHalf

\* mutant: the loop stops one tile early
generate16_offByOne(imgs, ts) ==
    generate16Loop([canvas |-> createCanvas(4 * ts, 4 * ts), tiles |-> <<>>], 0, 15, 4, imgs, ts)

\* mutant: the atlas is laid out 8 columns wide
generate16_cols8(imgs, ts) ==
    generate16Loop([canvas |-> createCanvas(8 * ts, 4 * ts), tiles |-> <<>>], 0, 16, 8, imgs, ts)

generate16(imgs, ts) ==
    LET cols == 4
        rows == 4
    IN  generate16Loop([canvas |-> createCanvas(cols * ts, rows * ts), tiles |-> <<>>], 0, 16, cols, imgs, ts)

\* one call of the forEach callback of generate47
generate47Step(acc, n8, idx, cols, imgs, ts) ==
    LET col == idx % cols
        row == idx \div cols
        tx  == col * ts
        ty  == row * ts
        b4  == cardinals8to4(n8)
    IN  [canvas |-> composeQuadrants(acc.canvas, tx, ty, ts, b4, imgs, n8),
         tiles  |-> Append(acc.tiles,
                           [id |-> idx, bitmask8 |-> n8, bitmask4 |-> b4, x |-> tx, y |-> ty,
                            width |-> ts, height |-> ts, label |-> <<"tile-47-", idx>>])]

RECURSIVE generate47Loop(_, _, _, _, _, _, _)
\* NORMALIZED_47.forEach((norm8, idx) => ...) for idx = first .. last - 1, in order
\* (the range is halved so that the evaluation stays shallow)
generate47Loop(acc, first, last, table, cols, imgs, ts) ==
    IF ~(first < last) THEN acc
    ELSE IF last - first = 1 THEN generate47Step(acc, table[first + 1], first, cols, imgs, ts)
    ELSE LET mid == (first + last) \div 2
             firstHalf == generate47Loop(acc, first, mid, table, cols, imgs, ts)
         IN  IF Evaluated(firstHalf)
             THEN generate47Loop(firstHalf, mid, last, table, cols, imgs, ts)
             ELSE firstHalf

\* Math.ceil(n / d) for positive integers
Ceil(n, d) == (n + d - 1) \div d

\* mutant: the row count is rounded down
generate47_floorRows(imgs, ts) ==
    LET cols == 8
        rows == Len(NORMALIZED_47) \div cols
    IN  generate47Loop([canvas |-> createCanvas(cols * ts, rows * ts), tiles |-> <<>>],
                       0, Len(NORMALIZED_47), NORMALIZED_47, cols, imgs, ts)

generate47(imgs, ts) ==
    LET cols == 8
        rows == Ceil(Len(NORMALIZED_47), cols)
    IN  generate47Loop([canvas |-> createCanvas(cols * ts, rows * ts), tiles |-> <<>>],
                       0, Len(NORMALIZED_47), NORMALIZED_47, cols, imgs, ts)

\* mutant: the default case of the switch is the 47-tile builder
generate_default47(st) ==
    LET ts == Max(8, st.tileSize)
        built == IF st.algorithm = "16" THEN generate16(st.images, ts)
                 ELSE generate47(st.images, ts)
    IN  [canvas |-> built.canvas, tiles |-> built.tiles, algorithm |-> st.algorithm]

\* mutant: the tile size is not clamped
generate_noClamp(st) ==
    LET ts == st.tileSize
        built == IF st.algorithm = "47" THEN generate47(st.images, ts)
                 ELSE generate16(st.images, ts)
    IN  [canvas |-> built.canvas, tiles |-> built.tiles, algorithm |-> st.algorithm]

\* generate(state): { ...generateNN(images, ts), algorithm }
generate(st) ==
    LET ts == Max(8, st.tileSize)
        built == IF st.algorithm = "47" THEN generate47(st.images, ts)
                 ELSE generate16(st.images, ts)
    IN  [canvas |-> built.canvas, tiles |-> built.tiles, algorithm |-> st.algorithm]

-----------------------------------------------------------------------------
(* Inputs of the generator and compositor runs                             *)

\* the colour each slot's test raster is painted in
SlotColour ==
    [s \in SLOTS |->
        CASE s = "main"   -> [r |-> 255, g |-> 0,   b |-> 0]
          [] s = "top"    -> [r |-> 0,   g |-> 255, b |-> 0]
          [] s = "bottom" -> [r |-> 255, g |-> 255, b |-> 0]
          [] s = "left"   -> [r |-> 0,   g |-> 0,   b |-> 255]
          [] s = "right"  -> [r |-> 0,   g |-> 255, b |-> 255]]

Paint(c, alpha) == [r |-> c.r, g |-> c.g, b |-> c.b, a |-> alpha]

\* a 2x2 raster (one pixel per quadrant), fully opaque
Solid(s) ==
    [width |-> 2, height |-> 2,
     px |-> [p \in (0..1) \X (0..1) |-> Paint(SlotColour[s], 255)]]

\* a 2x2 raster whose quadrants are translucent, transparent, opaque, translucent
Mixed(s) ==
    [width |-> 2, height |-> 2,
     px |-> [p \in (0..1) \X (0..1) |->
                CASE p = <<0, 0>> -> Paint(SlotColour[s], 128)
                  [] p = <<1, 0>> -> Transparent
                  [] p = <<0, 1>> -> Paint(SlotColour[s], 255)
                  [] p = <<1, 1>> -> Paint(SlotColour[s], 64)]]

ImageSets == {f \in [SLOTS -> {"none", "solid", "mixed"}] : TRUE}

Load(f) ==
    [s \in SLOTS |-> CASE f[s] = "none"  -> NoImage
                       [] f[s] = "solid" -> Solid(s)
                       [] f[s] = "mixed" -> Mixed(s)]

EmptySet == [s \in SLOTS |-> NoImage]

\* even sizes, some below the minimum of 8
TileSizes == {t \in (MaxTileSize - 4)..MaxTileSize : t % 2 = 0}

\* "hex" stands for every unrecognised value
Algorithms == {"16", "47", "hex"}

\* no export button has been clicked
NoExport == [kind |-> "none", file |-> <<>>, tiles |-> <<>>, tileSize |-> 0, algorithm |-> "null"]

\* no archive has been built
NoPackage == [file |-> "null"]

GRID_COLS == 12
GRID_ROWS == 10

\* Array.from({ length: GRID_ROWS }, () => new Array(GRID_COLS).fill(fill))
makeGrid(fill) == [c \in (0..(GRID_ROWS - 1)) \X (0..(GRID_COLS - 1)) |-> fill]

\* cellAt(e) returned null
NoCell == <<-1, -1>>

NoEvent == [type |-> "none", cell |-> NoCell]

\* no loadLang call is under way, none was started by a click, no fetch has failed
NoLoads == [calls |-> <<>>, started |-> 0, failed |-> FALSE]

\* no mouse button is held: open says a mousedown came after the latest
\* mouseup, onCell that it hit a cell, value what that cell was given
NoStroke == [open |-> FALSE, onCell |-> FALSE, value |-> FALSE]

NoCanvas == createCanvas(0, 0)
NoResult == [canvas |-> NoCanvas, tiles |-> <<>>, algorithm |-> "null"]

-----------------------------------------------------------------------------
(* Normalisation runs: one raw code is normalised, then looked up          *)

IdleGen  == /\ images = [s \in SLOTS |-> NoImage]
            /\ tileSize = 32
            /\ algorithm = "16"
            /\ result = NoResult
IdleComp == /\ bm4 = 0
            /\ bm8 = 0
            /\ tile = NoCanvas
IdleExp  == package = NoPackage
IdleApp  == /\ genTimer = 0
            /\ timers = {}
            /\ now = 0
            /\ lastChange = 0
            /\ runs = <<>>
            /\ exported = NoExport
IdleGrid == /\ grid = makeGrid(FALSE)
            /\ isDrawing = FALSE
            /\ drawValue = TRUE
            /\ event = NoEvent
            /\ prevGrid = makeGrid(FALSE)
            /\ strokeValue = NoStroke
            /\ mapCalls = <<>>
IdleLang == /\ lang = "en"
            /\ i18nLang = "en"
            /\ docLang = "en"
            /\ storedLang = "en"
            /\ loads = NoLoads
IdleUi   == IdleExp /\ IdleApp /\ IdleGrid /\ IdleLang
IdleNorm == /\ raw8 = 0
            /\ norm8 = 0
            /\ index47 = 0
            /\ pcNorm = "input"

InitNorm ==
    /\ raw8 \in 0..255
    /\ norm8 = 0
    /\ index47 = 0
    /\ pcNorm = "input"
    /\ IdleGen
    /\ IdleComp
    /\ IdleUi

CallNormalize47 ==
    /\ pcNorm = "input"
    /\ norm8' = normalize47(raw8)
    /\ pcNorm' = "normalized"
    /\ UNCHANGED <<raw8, index47, genVars, compVars, uiVars>>

CallBitmask8ToIndex47 ==
    /\ pcNorm = "normalized"
    /\ index47' = bitmask8ToIndex47(raw8)
    /\ pcNorm' = "indexed"
    /\ UNCHANGED <<raw8, norm8, genVars, compVars, uiVars>>

NextNorm == CallNormalize47 \/ CallBitmask8ToIndex47

SpecNorm == InitNorm /\ [][NextNorm]_vars

-----------------------------------------------------------------------------
(* Generator runs: generate is applied once to a drawn state               *)

InitGen ==
    /\ images \in {Load(f) : f \in ImageSets}
    /\ tileSize \in TileSizes
    /\ algorithm \in Algorithms
    /\ result = NoResult
    /\ IdleNorm
    /\ IdleComp
    /\ IdleUi

CallGenerate ==
    /\ result = NoResult
    /\ result' = generate([images |-> images, tileSize |-> tileSize, algorithm |-> algorithm])
    /\ UNCHANGED <<images, tileSize, algorithm, normVars, compVars, uiVars>>

NextGen == CallGenerate

SpecGen == InitGen /\ [][NextGen]_vars

-----------------------------------------------------------------------------
(* Compositor runs: composeQuadrants draws one tile on a fresh canvas      *)

InitCompose ==
    /\ bm4 \in 0..15
    /\ bm8 \in 0..255
    /\ images \in {EmptySet, Load([s \in SLOTS |-> "solid"])}
    /\ tile = NoCanvas
    /\ tileSize \in {t \in TileSizes : t >= 8}
    /\ algorithm = "16"
    /\ result = NoResult
    /\ IdleNorm
    /\ IdleUi

CallComposeQuadrants ==
    /\ tile = NoCanvas
    /\ tile' = composeQuadrants(createCanvas(tileSize, tileSize), 0, 0, tileSize, bm4, images, bm8)
    /\ UNCHANGED <<bm4, bm8, genVars, normVars, uiVars>>

NextCompose == CallComposeQuadrants

SpecCompose == InitCompose /\ [][NextCompose]_vars

-----------------------------------------------------------------------------
(* Corner runs: composeQuadrants draws one tile of the 47 scheme from a    *)
(* top and a left raster of varied colour and alpha                        *)

\* a 2x2 raster of one colour and one alpha
Flat(c, alpha) ==
    [width |-> 2, height |-> 2, px |-> [p \in (0..1) \X (0..1) |-> Paint(c, alpha)]]

Red  == [r |-> 255, g |-> 0, b |-> 0]
Blue == [r |-> 0, g |-> 0, b |-> 255]

EdgeRasters ==
    { Flat(Red, 255), Flat(Blue, 255),
      Flat([r |-> 100, g |-> 150, b |-> 200], 100),
      Flat([r |-> 10, g |-> 20, b |-> 30], 60),
      Flat([r |-> 0, g |-> 0, b |-> 0], 0) }

InitCorner ==
    /\ bm8 \in {normalize47(b) : b \in 0..255}
    /\ bm4 = cardinals8to4(bm8)
    /\ \E m \in {NoImage, Solid("main")} : \E v \in EdgeRasters : \E h \in EdgeRasters :
          images = [s \in SLOTS |-> CASE s = "main" -> m
                                      [] s = "top"  -> v
                                      [] s = "left" -> h
                                      [] OTHER      -> NoImage]
    /\ tile = NoCanvas
    /\ tileSize \in {t \in TileSizes : t >= 8}
    /\ algorithm = "47"
    /\ result = NoResult
    /\ IdleNorm
    /\ IdleUi

SpecCorner == InitCorner /\ [][NextCompose]_vars

-----------------------------------------------------------------------------
(* Clamp runs: generate is applied to small, zero and negative tile sizes  *)

\* every integer from -2 to 7, and the even sizes from 8 on
ClampSizes == (-2..7) \cup {t \in 8..MaxTileSize : t % 2 = 0}

InitClamp ==
    /\ images \in {EmptySet, Load([s \in SLOTS |-> "solid"])}
    /\ tileSize \in ClampSizes
    /\ algorithm \in Algorithms
    /\ result = NoResult
    /\ IdleNorm
    /\ IdleComp
    /\ IdleUi

SpecClamp == InitClamp /\ [][NextGen]_vars

-----------------------------------------------------------------------------
(* Exporter (src/js/exporter.js): the Unity package built from an atlas   *)
(* The archive is modelled by the fields its YAML documents carry; GUIDs, *)
(* the PNG bytes and the constant YAML lines are left out.                 *)

NBR_THIS == 1
NBR_NOTTHIS == 2

\* largest high word of a generated file id in a run (the code draws 1 .. 0x7FFFFFFF)
MaxHi == 30

\* largest low word of a generated file id in a run (the code draws 0 .. 0xFFFFFFFF)
MaxLo == 1

\* largest stride of the id sequences tried (0 makes all ids of a package equal)
MaxStride == 3

\* mutant: the high word may be 0, so that small ids such as 1, 2, 3 come out
randomFileId_zeroHi(j) ==
    [hi |-> (j \div (MaxLo + 1)) % (MaxHi + 1), lo |-> j % (MaxLo + 1)]

\* randomFileId(): the 64-bit value hi * 2^32 + lo with 1 <= hi, kept as its
\* two words; j selects the outcome of the two Math.random() calls
randomFileId(j) ==
    [hi |-> 1 + ((j \div (MaxLo + 1)) % MaxHi), lo |-> j % (MaxLo + 1)]

\* tiles.map(() => randomFileId()): n draws, here outcome seed[2] + i * seed[1] for the i-th
SpriteIds(n, seed) == [i \in 1..n |-> randomFileId(seed[2] + i * seed[1])]

Seeds == (0..MaxStride) \X (0..1)

\* tile.label.replace(/[^a-zA-Z0-9_]/g, '_') on the labels the builders make
SafeLabel(t) ==
    IF "bitmask8" \in DOMAIN t
    THEN <<"tile_47_", t.id>>
    ELSE <<"isolated", "cap_N", "cap_E", "corner_NE",
           "cap_S", "strip_V", "corner_SE", "T_E",
           "cap_W", "corner_NW", "strip_H", "T_N",
           "corner_SW", "T_W", "T_S", "cross">>[t.id + 1]

buildTextureMeta(tiles, imageH, ts, spriteIds) ==
    [spritePixelsToUnits |-> ts,
     sprites |-> [i \in 1..Len(tiles) |->
                     [name |-> SafeLabel(tiles[i]),
                      x |-> tiles[i].x,
                      y |-> imageH - tiles[i].y - tiles[i].height,
                      width |-> tiles[i].width,
                      height |-> tiles[i].height,
                      internalID |-> spriteIds[i]]],
     nameFileIdTable |-> [i \in 1..Len(tiles) |->
                             [name |-> SafeLabel(tiles[i]), id |-> spriteIds[i]]]]

buildTileAssets(tiles, safeName, spriteIds) ==
    [i \in 1..Len(tiles) |->
        [path |-> <<"Assets/", safeName, "/Tiles/", SafeLabel(tiles[i]), ".asset">>,
         m_Name |-> SafeLabel(tiles[i]),
         m_Sprite |-> spriteIds[i]]]

HexDigit(d) == <<"0", "1", "2", "3", "4", "5", "6", "7", "8", "9", "a", "b", "c", "d", "e", "f">>[d + 1]

\* v.toString(16).padStart(2, '0') + '000000' for 0 <= v < 256
HexInt32(v) == <<HexDigit(v \div 16), HexDigit(v % 16), "000000">>

\* mutant: an absent diagonal is always NotThis, also next to an absent cardinal
buildRuleEntry_strictDiagonals(t, alg, spriteFileId) ==
    LET b == IF "bitmask8" \in DOMAIN t THEN t.bitmask8 ELSE 0
        bit(w) == IF Has(b, w) THEN NBR_THIS ELSE NBR_NOTTHIS
        nbrValues == <<bit(128), bit(1), bit(2), bit(64), bit(4), bit(32), bit(16), bit(8)>>
    IN  [m_Neighbors |-> [k \in 1..8 |-> HexInt32(nbrValues[k])],
         m_Sprites   |-> <<spriteFileId>>]

buildRuleEntry(t, alg, spriteFileId) ==
    LET nbrValues ==
          IF alg = "47"
          THEN LET b == IF "bitmask8" \in DOMAIN t THEN t.bitmask8 ELSE 0
                   hasN  == Has(b, 1)
                   hasNE == Has(b, 2)
                   hasE  == Has(b, 4)
                   hasSE == Has(b, 8)
                   hasS  == Has(b, 16)
                   hasSW == Has(b, 32)
                   hasW  == Has(b, 64)
                   hasNW == Has(b, 128)
                   nw == IF hasNW THEN NBR_THIS ELSE IF hasN /\ hasW THEN NBR_NOTTHIS ELSE 0
                   ne == IF hasNE THEN NBR_THIS ELSE IF hasN /\ hasE THEN NBR_NOTTHIS ELSE 0
                   sw == IF hasSW THEN NBR_THIS ELSE IF hasS /\ hasW THEN NBR_NOTTHIS ELSE 0
                   se == IF hasSE THEN NBR_THIS ELSE IF hasS /\ hasE THEN NBR_NOTTHIS ELSE 0
               IN  <<nw, IF hasN THEN NBR_THIS ELSE NBR_NOTTHIS, ne,
                     IF hasW THEN NBR_THIS ELSE NBR_NOTTHIS,
                     IF hasE THEN NBR_THIS ELSE NBR_NOTTHIS,
                     sw, IF hasS THEN NBR_THIS ELSE NBR_NOTTHIS, se>>
          ELSE LET b == IF "bitmask" \in DOMAIN t THEN t.bitmask ELSE 0
                   hasN == Has(b, 1)
                   hasE == Has(b, 2)
                   hasS == Has(b, 4)
                   hasW == Has(b, 8)
               IN  <<0, IF hasN THEN NBR_THIS ELSE NBR_NOTTHIS, 0,
                     IF hasW THEN NBR_THIS ELSE NBR_NOTTHIS,
                     IF hasE THEN NBR_THIS ELSE NBR_NOTTHIS,
                     0, IF hasS THEN NBR_THIS ELSE NBR_NOTTHIS, 0>>
    IN  [m_Neighbors |-> [k \in 1..8 |-> HexInt32(nbrValues[k])],
         m_Sprites   |-> <<spriteFileId>>]

buildRuleTileAsset(tiles, alg, assetName, spriteIds) ==
    [m_Name |-> assetName,
     m_DefaultSprite |-> spriteIds[1],
     m_TilingRules |-> [i \in 1..Len(tiles) |-> buildRuleEntry(tiles[i], alg, spriteIds[i])]]

buildTilePalette(paletteName, spriteId0) ==
    [m_Name |-> paletteName, m_Data |-> spriteId0]

\* mutant: the Tile assets take their sprite ids from a second series of draws
exportUnityPackage_freshTileIds(canvas, tiles, ts, alg, safeName, seed) ==
    LET spriteIds == SpriteIds(Len(tiles), seed)
    IN  [file |-> <<safeName, "-", alg, ".unitypackage">>,
         pngFile |-> <<safeName, "-", alg, ".png">>,
         pngMeta |-> buildTextureMeta(tiles, canvas.height, ts, spriteIds),
         tileEntries |-> buildTileAssets(tiles, safeName, SpriteIds(Len(tiles), <<seed[1], seed[2] + 1>>)),
         ruleTile |-> buildRuleTileAsset(tiles, alg, <<safeName, "RuleTile">>, spriteIds),
         palette |-> buildTilePalette(<<safeName, "Palette">>, spriteIds[1])]

\* exportUnityPackage(canvas, tiles, tileSize, algorithm, name) for a name
\* that is already safe; seed selects the outcomes of randomFileId
exportUnityPackage(canvas, tiles, ts, alg, safeName, seed) ==
    LET spriteIds == SpriteIds(Len(tiles), seed)
    IN  [file |-> <<safeName, "-", alg, ".unitypackage">>,
         pngFile |-> <<safeName, "-", alg, ".png">>,
         pngMeta |-> buildTextureMeta(tiles, canvas.height, ts, spriteIds),
         tileEntries |-> buildTileAssets(tiles, safeName, spriteIds),
         ruleTile |-> buildRuleTileAsset(tiles, alg, <<safeName, "RuleTile">>, spriteIds),
         palette |-> buildTilePalette(<<safeName, "Palette">>, spriteIds[1])]

\* an atlas has been generated from five opaque rasters, under any scheme
\* value; the export is asked for with the scheme value of the settings
InitExport ==
    /\ images = Load([s \in SLOTS |-> "solid"])
    /\ tileSize \in {t \in TileSizes : t >= 8}
    /\ algorithm \in Algorithms
    /\ \E g \in Algorithms :
          result = generate([images |-> images, tileSize |-> tileSize, algorithm |-> g])
    /\ package = NoPackage
    /\ IdleNorm /\ IdleComp /\ IdleApp /\ IdleGrid /\ IdleLang

CallExportUnityPackage ==
    /\ package = NoPackage
    /\ \E seed \in Seeds :
          package' = exportUnityPackage(result.canvas, result.tiles, tileSize, algorithm,
                                        "BaconTileSet", seed)
    /\ UNCHANGED <<normVars, genVars, compVars, appVars, gridVars, langVars>>

NextExport == CallExportUnityPackage

SpecExport == InitExport /\ [][NextExport]_vars

-----------------------------------------------------------------------------
(* Grid painter (src/js/tilemap.js)                                        *)

\* mutant: the east and west neighbours are read from the wrong side
computeBm4_mirrored(g, row, col) ==
    LET hasN == row > 0 /\ g[<<row - 1, col>>]
        hasE == col > 0 /\ g[<<row, col - 1>>]
        hasS == row < GRID_ROWS - 1 /\ g[<<row + 1, col>>]
        hasW == col < GRID_COLS - 1 /\ g[<<row, col + 1>>]
    IN  Or(Or(IF hasN THEN 1 ELSE 0, IF hasE THEN 2 ELSE 0),
           Or(IF hasS THEN 4 ELSE 0, IF hasW THEN 8 ELSE 0))

computeBm4(g, row, col) ==
    LET hasN == row > 0 /\ g[<<row - 1, col>>]
        hasE == col < GRID_COLS - 1 /\ g[<<row, col + 1>>]
        hasS == row < GRID_ROWS - 1 /\ g[<<row + 1, col>>]
        hasW == col > 0 /\ g[<<row, col - 1>>]
    IN  Or(Or(IF hasN THEN 1 ELSE 0, IF hasE THEN 2 ELSE 0),
           Or(IF hasS THEN 4 ELSE 0, IF hasW THEN 8 ELSE 0))

computeBm8(g, row, col) ==
    LET b4 == computeBm4(g, row, col)
        N  == Has(b4, 1)
        E  == Has(b4, 2)
        S  == Has(b4, 4)
        W  == Has(b4, 8)
        NE == N /\ E /\ row > 0 /\ col < GRID_COLS - 1 /\ g[<<row - 1, col + 1>>]
        SE == S /\ E /\ row < GRID_ROWS - 1 /\ col < GRID_COLS - 1 /\ g[<<row + 1, col + 1>>]
        SW == S /\ W /\ row < GRID_ROWS - 1 /\ col > 0 /\ g[<<row + 1, col - 1>>]
        NW == N /\ W /\ row > 0 /\ col > 0 /\ g[<<row - 1, col - 1>>]
        cardinals == Or(Or(IF N THEN 1 ELSE 0, IF E THEN 4 ELSE 0),
                        Or(IF S THEN 16 ELSE 0, IF W THEN 64 ELSE 0))
        diagonals == Or(Or(IF NE THEN 2 ELSE 0, IF SE THEN 8 ELSE 0),
                        Or(IF SW THEN 32 ELSE 0, IF NW THEN 128 ELSE 0))
    IN  normalize47(Or(cardinals, diagonals))

\* the cells in the order of the two nested loops of renderTilemap
CellOrder == [k \in 1..(GRID_ROWS * GRID_COLS) |-> <<(k - 1) \div GRID_COLS, (k - 1) % GRID_COLS>>]

\* renderTilemap(state): the size given to the canvas and, for each filled
\* cell in loop order, the arguments of its composeQuadrants call (the
\* background fill and the grid lines are left out)
renderTilemap(g, st) ==
    LET ts     == Max(8, st.tileSize)
        is47   == st.algorithm = "47"
        filled == SelectSeq(CellOrder, LAMBDA c : g[c])
    IN  [k \in 1..Len(filled) |->
            LET r == filled[k][1]
                c == filled[k][2]
            IN  [row |-> r, col |-> c, tx |-> c * ts, ty |-> r * ts, ts |-> ts,
                 bm4 |-> computeBm4(g, r, c),
                 bm8 |-> IF is47 THEN computeBm8(g, r, c) ELSE 0]]

\* what generate(state) and renderTilemap(state) read of the state
AppState == [images |-> images, tileSize |-> tileSize, algorithm |-> algorithm]

\* the offset and the bm8 weight of each of the eight neighbours
Neighbours ==
    { [dr |-> -1, dc |->  0, w |-> 1],  [dr |-> -1, dc |->  1, w |-> 2],
      [dr |->  0, dc |->  1, w |-> 4],  [dr |->  1, dc |->  1, w |-> 8],
      [dr |->  1, dc |->  0, w |-> 16], [dr |->  1, dc |-> -1, w |-> 32],
      [dr |->  0, dc |-> -1, w |-> 64], [dr |-> -1, dc |-> -1, w |-> 128] }

\* the cells around which the neighbourhoods of a run are laid: the four
\* corners, one cell of each border and an inner cell
Centres ==
    { <<0, 0>>, <<0, GRID_COLS - 1>>, <<GRID_ROWS - 1, 0>>, <<GRID_ROWS - 1, GRID_COLS - 1>>,
      <<0, 5>>, <<GRID_ROWS - 1, 5>>, <<4, 0>>, <<4, GRID_COLS - 1>>, <<4, 5>> }

\* the grid with the centre filled and, around it, the neighbours of pattern p
PatternGrid(centre, p) ==
    [c \in (0..(GRID_ROWS - 1)) \X (0..(GRID_COLS - 1)) |->
        \/ c = centre
        \/ \E n \in Neighbours :
              c = <<centre[1] + n.dr, centre[2] + n.dc>> /\ Has(p, n.w)]

\* some cells have been painted; the page has its settings, no image yet
InitGrid ==
    /\ \E centre \in Centres : \E p \in 0..255 : grid = PatternGrid(centre, p)
    /\ prevGrid = makeGrid(FALSE)
    /\ isDrawing = FALSE
    /\ drawValue = TRUE
    /\ event = NoEvent
    /\ strokeValue = NoStroke
    /\ mapCalls = <<>>
    /\ images = EmptySet
    /\ tileSize \in {t \in TileSizes : t >= 8}
    /\ algorithm \in {"16", "47"}
    /\ result = NoResult
    /\ IdleNorm /\ IdleComp /\ IdleExp /\ IdleApp /\ IdleLang

\* renderTilemap(state), as doGenerate and the painter's onChange call it
CallRenderTilemap ==
    /\ mapCalls = <<>>
    /\ mapCalls' = renderTilemap(grid, AppState)
    /\ UNCHANGED <<grid, isDrawing, drawValue, event, prevGrid, strokeValue,
                   normVars, genVars, compVars, expVars, appVars, langVars>>

NextGrid == CallRenderTilemap

SpecGrid == InitGrid /\ [][NextGrid]_vars

\* the last column of the top row the pointer visits in a run
MaxPaintCol == 0

\* the cells the pointer visits in a run
PaintCells == {<<0, c>> : c \in 0..MaxPaintCol} \cup {<<GRID_ROWS - 1, GRID_COLS - 1>>}

\* initTilemap has wired the canvas; nothing is painted
InitPaint ==
    /\ IdleGrid
    /\ images = EmptySet
    /\ tileSize = 32
    /\ algorithm = "16"
    /\ result = NoResult
    /\ IdleNorm /\ IdleComp /\ IdleExp /\ IdleApp /\ IdleLang

\* canvas 'mousedown'; cell is what cellAt(e) returns
MouseDown ==
    \E cell \in PaintCells \cup {NoCell} :
        /\ isDrawing' = TRUE
        /\ event' = [type |-> "mousedown", cell |-> cell]
        /\ prevGrid' = grid
        /\ IF cell = NoCell
           THEN /\ UNCHANGED <<grid, drawValue, mapCalls>>
                /\ strokeValue' = [open |-> TRUE, onCell |-> FALSE, value |-> FALSE]
           ELSE /\ drawValue' = ~grid[cell]
                /\ grid' = [grid EXCEPT ![cell] = ~grid[cell]]
                /\ mapCalls' = renderTilemap(grid', AppState)
                /\ strokeValue' = [open |-> TRUE, onCell |-> TRUE, value |-> grid'[cell]]
        /\ UNCHANGED <<normVars, genVars, compVars, expVars, appVars, langVars>>

\* mutant: the pointer paints whether or not a stroke is under way
MouseMove_always ==
    \E cell \in PaintCells \cup {NoCell} :
        /\ event' = [type |-> "mousemove", cell |-> cell]
        /\ prevGrid' = grid
        /\ IF cell = NoCell \/ grid[cell] = drawValue
           THEN UNCHANGED <<grid, mapCalls>>
           ELSE /\ grid' = [grid EXCEPT ![cell] = drawValue]
                /\ mapCalls' = renderTilemap(grid', AppState)
        /\ UNCHANGED <<isDrawing, drawValue, strokeValue,
                       normVars, genVars, compVars, expVars, appVars, langVars>>

\* canvas 'mousemove'
MouseMove ==
    \E cell \in PaintCells \cup {NoCell} :
        /\ event' = [type |-> "mousemove", cell |-> cell]
        /\ prevGrid' = grid
        /\ IF ~isDrawing \/ cell = NoCell \/ grid[cell] = drawValue
           THEN UNCHANGED <<grid, mapCalls>>
           ELSE /\ grid' = [grid EXCEPT ![cell] = drawValue]
                /\ mapCalls' = renderTilemap(grid', AppState)
        /\ UNCHANGED <<isDrawing, drawValue, strokeValue,
                       normVars, genVars, compVars, expVars, appVars, langVars>>

\* window 'mouseup'
MouseUp ==
    /\ isDrawing' = FALSE
    /\ event' = [type |-> "mouseup", cell |-> NoCell]
    /\ prevGrid' = grid
    /\ strokeValue' = NoStroke
    /\ UNCHANGED <<grid, drawValue, mapCalls,
                   normVars, genVars, compVars, expVars, appVars, langVars>>

\* #tilemap-clear 'click'
ClickClear ==
    /\ grid' = makeGrid(FALSE)
    /\ event' = [type |-> "clear", cell |-> NoCell]
    /\ prevGrid' = grid
    /\ mapCalls' = renderTilemap(grid', AppState)
    /\ UNCHANGED <<isDrawing, drawValue, strokeValue,
                   normVars, genVars, compVars, expVars, appVars, langVars>>

\* #tilemap-fill 'click'
ClickFill ==
    /\ grid' = makeGrid(TRUE)
    /\ event' = [type |-> "fill", cell |-> NoCell]
    /\ prevGrid' = grid
    /\ mapCalls' = renderTilemap(grid', AppState)
    /\ UNCHANGED <<isDrawing, drawValue, strokeValue,
                   normVars, genVars, compVars, expVars, appVars, langVars>>

NextPaint ==
    \/ MouseDown
    \/ MouseMove
    \/ MouseUp
    \/ ClickClear
    \/ ClickFill

SpecPaint == InitPaint /\ [][NextPaint]_vars

-----------------------------------------------------------------------------
(* The page (src/js/main.js, app part): settings, uploads, the debounced   *)
(* generation and the export buttons, from the end of boot() on           *)

\* setTimeout(doGenerate, 300)
DebounceMs == 300

\* the clock advances in steps of TickMs
TickMs == 100

\* after MaxTime the clock advances only while a timer is waiting
MaxTime == 500

\* largest number of scheduleAutoGenerate calls after the one of boot()
MaxChanges == 2

\* the slots an image is uploaded to in a run
UploadSlots == {"main", "top"}

\* the outcome of the random draws of an export made from the page
PageSeed == <<1, 0>>

\* mutant: the pending timer is not cleared
scheduleAutoGenerate_noClear ==
    /\ timers' = timers \cup {[id |-> genTimer + 1, due |-> now + DebounceMs]}
    /\ genTimer' = genTimer + 1
    /\ lastChange' = now

\* clearTimeout(genTimer); genTimer = setTimeout(doGenerate, 300)
scheduleAutoGenerate ==
    /\ timers' = {x \in timers : x.id # genTimer} \cup {[id |-> genTimer + 1, due |-> now + DebounceMs]}
    /\ genTimer' = genTimer + 1
    /\ lastChange' = now

\* boot() has loaded the language, wired the page and called scheduleAutoGenerate
InitApp ==
    /\ images = EmptySet
    /\ tileSize = 32
    /\ algorithm = "16"
    /\ result = NoResult
    /\ genTimer = 1
    /\ timers = {[id |-> 1, due |-> DebounceMs]}
    /\ now = 0
    /\ lastChange = 0
    /\ runs = <<>>
    /\ exported = NoExport
    /\ IdleNorm /\ IdleComp /\ IdleExp /\ IdleGrid /\ IdleLang

\* algoSelect 'change'
ChangeAlgorithm ==
    /\ genTimer <= MaxChanges
    /\ \E a \in {"16", "47"} : algorithm' = a
    /\ scheduleAutoGenerate
    /\ UNCHANGED <<images, tileSize, result, now, runs, exported,
                   normVars, compVars, expVars, gridVars, langVars>>

\* tileSizeInput 'change': values below 8 are ignored
ChangeTileSize ==
    /\ genTimer <= MaxChanges
    /\ \E v \in TileSizes :
          IF v >= 8
          THEN /\ tileSize' = v
               /\ scheduleAutoGenerate
          ELSE UNCHANGED <<tileSize, genTimer, timers, lastChange>>
    /\ UNCHANGED <<images, algorithm, result, now, runs, exported,
                   normVars, compVars, expVars, gridVars, langVars>>

\* onImageLoaded(slot, bitmap) with no rotation or flip set
onImageLoaded ==
    /\ genTimer <= MaxChanges
    /\ \E slot \in UploadSlots : images' = [images EXCEPT ![slot] = Solid(slot)]
    /\ scheduleAutoGenerate
    /\ UNCHANGED <<tileSize, algorithm, result, now, runs, exported,
                   normVars, compVars, expVars, gridVars, langVars>>

\* time passes
Tick ==
    /\ now < MaxTime \/ \E x \in timers : now < x.due
    /\ now' = now + TickMs
    /\ UNCHANGED <<genTimer, timers, lastChange, runs, exported,
                   normVars, genVars, compVars, expVars, gridVars, langVars>>

\* a timer that is due leaves the set of waiting timers
TimerDue == \E x \in timers : now >= x.due /\ timers' = timers \ {x}

\* a timer that is due calls doGenerate
doGenerate ==
    /\ TimerDue
    /\ mapCalls' = renderTilemap(grid, AppState)
    /\ result' = IF \E s \in SLOTS : images[s] # NoImage THEN generate(AppState) ELSE result
    /\ runs' = Append(runs, [time |-> now, since |-> lastChange])
    /\ UNCHANGED <<images, tileSize, algorithm, genTimer, now, lastChange, exported,
                   grid, isDrawing, drawValue, event, prevGrid, strokeValue,
                   normVars, compVars, expVars, langVars>>

\* btnPNG 'click'
ClickExportPNG ==
    /\ result # NoResult
    /\ exported' = [kind |-> "png", file |-> <<"BaconTileSet", "-", algorithm, ".png">>,
                    tiles |-> result.tiles, tileSize |-> tileSize, algorithm |-> algorithm]
    /\ UNCHANGED <<genTimer, timers, now, lastChange, runs,
                   normVars, genVars, compVars, expVars, gridVars, langVars>>

\* btnUnity 'click'
ClickExportUnity ==
    /\ result # NoResult
    /\ package' = exportUnityPackage(result.canvas, result.tiles, tileSize, algorithm,
                                     "BaconTileSet", PageSeed)
    /\ exported' = [kind |-> "unity", file |-> <<"BaconTileSet", "-", algorithm, ".unitypackage">>,
                    tiles |-> result.tiles, tileSize |-> tileSize, algorithm |-> algorithm]
    /\ UNCHANGED <<genTimer, timers, now, lastChange, runs,
                   normVars, genVars, compVars, gridVars, langVars>>

NextApp ==
    \/ ChangeAlgorithm
    \/ ChangeTileSize
    \/ onImageLoaded
    \/ Tick
    \/ doGenerate

SpecApp == InitApp /\ [][NextApp]_vars

\* time passes, and a timer that stays due fires
SpecAppLive == SpecApp /\ WF_now(Tick) /\ WF_timers(TimerDue)

\* the page 300 ms after boot() with main uploaded at once: the first atlas
\* has been generated and no timer waits
InitPage ==
    /\ images = [EmptySet EXCEPT !["main"] = Solid("main")]
    /\ tileSize = 32
    /\ algorithm = "16"
    /\ result = generate(AppState)
    /\ genTimer = 2
    /\ timers = {}
    /\ now = DebounceMs
    /\ lastChange = 0
    /\ runs = <<[time |-> DebounceMs, since |-> 0]>>
    /\ exported = NoExport
    /\ IdleNorm /\ IdleComp /\ IdleExp /\ IdleGrid /\ IdleLang

NextPage ==
    \/ NextApp
    \/ ClickExportPNG
    \/ ClickExportUnity

\* the page with its export buttons, from the first generated atlas on
SpecPage == InitPage /\ [][NextPage]_vars

-----------------------------------------------------------------------------
(* Language button (src/js/main.js initLangCycle, src/js/i18n.js loadLang) *)

LANGS == <<"en", "ja", "zh">>

\* largest number of clicks on the language button in a run
MaxClicks == 3

\* LANGS[(LANGS.indexOf(l) + 1) % LANGS.length]
NextLang(l) == LANGS[((IndexOf(LANGS, l) + 1) % Len(LANGS)) + 1]

\* the sequence without its k-th element
RemoveAt(seq, k) == [i \in 1..(Len(seq) - 1) |-> IF i < k THEN seq[i] ELSE seq[i + 1]]

\* boot() has detected the language and its dictionary has been loaded
InitLang ==
    /\ lang \in {LANGS[i] : i \in 1..Len(LANGS)}
    /\ i18nLang = lang
    /\ docLang = lang
    /\ storedLang = lang
    /\ loads = NoLoads
    /\ IdleNorm /\ IdleGen /\ IdleComp /\ IdleExp /\ IdleApp /\ IdleGrid

\* #lang-cycle 'click', up to the await of loadLang(next)
ClickLang ==
    /\ loads.started < MaxClicks
    /\ lang' = NextLang(lang)
    /\ loads' = [loads EXCEPT !.calls = Append(@, [lang |-> NextLang(lang), stage |-> "fetch"]),
                              !.started = @ + 1]
    /\ UNCHANGED <<i18nLang, docLang, storedLang,
                   normVars, genVars, compVars, expVars, appVars, gridVars>>

\* loadLang: the fetch of the k-th call under way succeeds and its dictionary is activated
FetchOk ==
    \E k \in 1..Len(loads.calls) :
        /\ loads.calls[k].stage = "fetch"
        /\ i18nLang' = loads.calls[k].lang
        /\ docLang' = loads.calls[k].lang
        /\ storedLang' = loads.calls[k].lang
        /\ loads' = [loads EXCEPT !.calls = RemoveAt(@, k)]
        /\ UNCHANGED <<lang, normVars, genVars, compVars, expVars, appVars, gridVars>>

\* loadLang: the fetch of the k-th call fails; for a language other than 'en' English is fetched
FetchFail ==
    \E k \in 1..Len(loads.calls) :
        /\ loads.calls[k].stage = "fetch"
        /\ loads' = [loads EXCEPT !.failed = TRUE,
                                  !.calls = IF loads.calls[k].lang # "en"
                                            THEN [@ EXCEPT ![k].stage = "fallback"]
                                            ELSE RemoveAt(@, k)]
        /\ UNCHANGED <<lang, i18nLang, docLang, storedLang,
                       normVars, genVars, compVars, expVars, appVars, gridVars>>

\* loadLang: the fallback fetch of English ends, well (ok) or not
FallbackDone ==
    \E k \in 1..Len(loads.calls) : \E ok \in BOOLEAN :
        /\ loads.calls[k].stage = "fallback"
        /\ IF ok THEN i18nLang' = "en" /\ docLang' = "en"
                 ELSE UNCHANGED <<i18nLang, docLang>>
        /\ loads' = [loads EXCEPT !.calls = RemoveAt(@, k)]
        /\ UNCHANGED <<lang, storedLang, normVars, genVars, compVars, expVars, appVars, gridVars>>

NextLangStep ==
    \/ ClickLang
    \/ FetchOk
    \/ FetchFail
    \/ FallbackDone

SpecLang == InitLang /\ [][NextLangStep]_vars

-----------------------------------------------------------------------------
(* Claims C1..C5                                                           *)

Range(seq) == {seq[i] : i \in 1..Len(seq)}
Canonical == {normalize47(x) : x \in 0..255}
Diagonals == {<<NE_, N_, E_>>, <<SE_, E_, S_>>, <<SW_, S_, W_>>, <<NW_, W_, N_>>}

\* C1: normalising the output of normalize47 again gives the same value,
\* for every raw code 0..255.
C1_Idempotent ==
    pcNorm # "input" => normalize47(norm8) = norm8

\* a raw code with an unsupported diagonal has been normalised
C1_Witness ==
    pcNorm = "normalized" /\ raw8 = 11 /\ norm8 = 1

\* C2: the image of normalize47 over 0..255 has exactly 47 values and
\* NORMALIZED_47 holds exactly those 47 values, each once; every value a run
\* produces is one of them.
C2_Exactly47 ==
    /\ Cardinality(Canonical) = 47
    /\ Len(NORMALIZED_47) = 47
    /\ Range(NORMALIZED_47) = Canonical
    /\ pcNorm # "input" => norm8 \in Range(NORMALIZED_47)

\* the largest code has been normalised and is in the table
C2_Witness ==
    pcNorm = "normalized" /\ raw8 = 255 /\ norm8 = NORMALIZED_47[47]

\* C3: in the output a diagonal bit is set only if both adjacent cardinal
\* bits are set in that output.
C3_DiagonalNeedsCardinals ==
    pcNorm # "input" =>
        \A d \in Diagonals : Has(norm8, d[1]) => Has(norm8, d[2]) /\ Has(norm8, d[3])

\* a code with NE set and E clear has been normalised
C3_Witness ==
    pcNorm = "normalized" /\ Has(raw8, NE_) /\ ~Has(raw8, E_) /\ ~Has(norm8, NE_)

\* C4: the cardinal bits (mask 0x55) of the output equal those of the input,
\* and a diagonal of the input whose two adjacent cardinals are set in the
\* input is kept.
C4_CardinalsKept ==
    pcNorm # "input" =>
        /\ And(norm8, 85) = And(raw8, 85)
        /\ \A d \in Diagonals :
              Has(raw8, d[1]) /\ Has(raw8, d[2]) /\ Has(raw8, d[3]) => Has(norm8, d[1])

\* a code that loses a diagonal and keeps another has been normalised
C4_Witness ==
    pcNorm = "normalized" /\ raw8 = 15 /\ norm8 = 7

\* C5: bitmask8ToIndex47 returns an index in 0..46, the table holds the
\* normalised value at that index, and another raw code gets the same index
\* exactly when it has the same normalised value.
C5_IndexOfNormalized ==
    pcNorm = "indexed" =>
        /\ index47 \in 0..46
        /\ NORMALIZED_47[index47 + 1] = norm8
        /\ \A y \in 0..255 : (bitmask8ToIndex47(y) = index47) <=> (normalize47(y) = norm8)

\* a non-canonical raw code has been looked up
C5_Witness ==
    pcNorm = "indexed" /\ raw8 = 2 /\ index47 = 0

-----------------------------------------------------------------------------
(* Claims C6..C10                                                          *)

Generated == result # NoResult

\* the tile size the builders are called with
EffTileSize == Max(8, tileSize)

\* the pixels of atlas cell c on a grid cols wide, for tile size ts
CellPixels(c, cols, ts) ==
    (((c % cols) * ts)..((c % cols) * ts + ts - 1)) \X (((c \div cols) * ts)..((c \div cols) * ts + ts - 1))

\* every pixel of cell c is fully transparent
CellTransparent(canvas, c, cols, ts) ==
    \A p \in CellPixels(c, cols, ts) : PixelAt(canvas, p[1], p[2]).a = 0

\* the draw lies inside the cell of descriptor t
DrawInside(op, t) ==
    /\ t.x <= op.dx /\ op.dx + op.dw <= t.x + t.width
    /\ t.y <= op.dy /\ op.dy + op.dh <= t.y + t.height

\* C6: with the 47 scheme the descriptors are strictly increasing by
\* bitmask8, descriptor i has id i and the i-th smallest canonical value and
\* sits at pixel origin ((i mod 8) * ts, (i div 8) * ts), for i in 0..46.
C6_Order47 ==
    (Generated /\ algorithm = "47") =>
        LET tiles == result.tiles IN
        /\ Len(tiles) = 47
        /\ \A i \in 1..(Len(tiles) - 1) : tiles[i].bitmask8 < tiles[i + 1].bitmask8
        /\ \A i \in 0..46 :
              /\ tiles[i + 1].id = i
              /\ tiles[i + 1].bitmask8 \in Canonical
              /\ Cardinality({c \in Canonical : c < tiles[i + 1].bitmask8}) = i
              /\ tiles[i + 1].x = (i % 8) * EffTileSize
              /\ tiles[i + 1].y = (i \div 8) * EffTileSize

\* a 47-tile atlas was generated: its last descriptor is code 255 in row 5
C6_Witness ==
    /\ Generated /\ algorithm = "47" /\ tileSize = 10
    /\ result.tiles[47].bitmask8 = 255
    /\ result.tiles[47].x = 60 /\ result.tiles[47].y = 50

\* C7 as stated: 47 descriptors, an atlas of 8*ts by 6*ts pixels, and the
\* 5 trailing cells of the last row (cells 43..47) fully transparent.
C7_FiveTrailingCells ==
    (Generated /\ algorithm = "47") =>
        /\ Len(result.tiles) = 47
        /\ result.canvas.width = 8 * EffTileSize
        /\ result.canvas.height = 6 * EffTileSize
        /\ \A c \in 43..47 : CellTransparent(result.canvas, c, 8, EffTileSize)

\* C7 amended: 47 descriptors, an atlas of 8*ts by 6*ts pixels, every draw
\* lies inside the cell of one of the 47 descriptors, and the single cell
\* after index 46 (cell 47, the last of the 8x6 grid) is fully transparent.
C7_OneTrailingCell ==
    (Generated /\ algorithm = "47") =>
        /\ Len(result.tiles) = 47
        /\ result.canvas.width = 8 * EffTileSize
        /\ result.canvas.height = 6 * EffTileSize
        /\ ~result.canvas.error
        /\ \A k \in 1..Len(result.canvas.ops) :
              \E i \in 1..Len(result.tiles) : DrawInside(result.canvas.ops[k], result.tiles[i])
        /\ CellTransparent(result.canvas, 47, 8, EffTileSize)

\* a 47-tile atlas from five opaque sources: cell 46 is painted, cell 47 is not
C7_Witness ==
    /\ Generated /\ algorithm = "47"
    /\ images = Load([s \in SLOTS |-> "solid"])
    /\ PixelAt(result.canvas, 7 * EffTileSize - 1, 6 * EffTileSize - 1).a = 255
    /\ PixelAt(result.canvas, 8 * EffTileSize - 1, 6 * EffTileSize - 1).a = 0

\* C8: with the 16 scheme and any source set, generation yields exactly 16
\* descriptors and an atlas of 4*ts by 4*ts pixels.
C8_Sixteen ==
    (Generated /\ algorithm = "16") =>
        /\ Len(result.tiles) = 16
        /\ result.canvas.width = 4 * EffTileSize
        /\ result.canvas.height = 4 * EffTileSize
        /\ ~result.canvas.error

\* a 16-tile atlas was generated from no sources at all
C8_Witness ==
    /\ Generated /\ algorithm = "16" /\ images = EmptySet
    /\ Len(result.tiles) = 16 /\ result.canvas.width = 4 * tileSize

C9_Labels == <<"isolated", "cap-N", "cap-E", "corner-NE", "cap-S", "strip-V", "corner-SE", "T-E",
               "cap-W", "corner-NW", "strip-H", "T-N", "corner-SW", "T-W", "T-S", "cross">>

\* C9: with the 16 scheme descriptor i has id i and 4-bit code i, sits at
\* cell (i mod 4, i div 4) and carries the i-th label of the fixed list.
C9_Layout16 ==
    (Generated /\ algorithm = "16") =>
        /\ Len(result.tiles) >= 16
        /\ \A i \in 0..15 :
              /\ result.tiles[i + 1].id = i
              /\ result.tiles[i + 1].bitmask = i
              /\ result.tiles[i + 1].x = (i % 4) * EffTileSize
              /\ result.tiles[i + 1].y = (i \div 4) * EffTileSize
              /\ result.tiles[i + 1].width = EffTileSize
              /\ result.tiles[i + 1].height = EffTileSize
              /\ result.tiles[i + 1].label = C9_Labels[i + 1]

\* a 16-tile atlas was generated: descriptor 6 is corner-SE at cell (2, 1)
C9_Witness ==
    /\ Generated /\ algorithm = "16" /\ tileSize = 10
    /\ result.tiles[7].label = "corner-SE"
    /\ result.tiles[7].x = 20 /\ result.tiles[7].y = 10

\* C10: with all five slots absent, compositing a tile for any 4-bit and
\* any 8-bit code raises no error and leaves every pixel at alpha 0.
C10_EmptySourcesTransparent ==
    (tile # NoCanvas /\ images = EmptySet) =>
        /\ ~tile.error
        /\ \A p \in (0..(tileSize - 1)) \X (0..(tileSize - 1)) : PixelAt(tile, p[1], p[2]).a = 0

\* a tile with all four quadrants interior was composited from no sources
C10_Witness ==
    tile # NoCanvas /\ images = EmptySet /\ bm4 = 15 /\ bm8 = 85

-----------------------------------------------------------------------------
(* Claims C11..C20                                                         *)

\* the four quadrants of a tile: position, the bm4 masks of the vertical and
\* horizontal neighbour, the edge slots, and the bm8 mask of the own diagonal
Quadrants ==
    { [qcol |-> 0, qrow |-> 0, vbit |-> 1, hbit |-> 8, vslot |-> "top",    hslot |-> "left",  dbit |-> 128],
      [qcol |-> 1, qrow |-> 0, vbit |-> 1, hbit |-> 2, vslot |-> "top",    hslot |-> "right", dbit |-> 2],
      [qcol |-> 0, qrow |-> 1, vbit |-> 4, hbit |-> 8, vslot |-> "bottom", hslot |-> "left",  dbit |-> 32],
      [qcol |-> 1, qrow |-> 1, vbit |-> 4, hbit |-> 2, vslot |-> "bottom", hslot |-> "right", dbit |-> 8] }

\* the rasters drawn, in call order, onto exactly the rectangle (x, y, w, h)
ImagesDrawnAt(canvas, x, y, w, h) ==
    LET there == SelectSeq(canvas.ops,
                           LAMBDA op : op.dx = x /\ op.dy = y /\ op.dw = w /\ op.dh = h)
    IN  [k \in 1..Len(there) |-> there[k].img]

\* the rasters drawn onto quadrant q of the tile of descriptor t
QuadrantLayers(canvas, t, q) ==
    ImagesDrawnAt(canvas, t.x + q.qcol * (t.width \div 2), t.y + q.qrow * (t.height \div 2),
                  t.width \div 2, t.height \div 2)

\* the 4-bit code of a descriptor of the current result
Code4(t) == IF algorithm = "47" THEN t.bitmask4 ELSE t.bitmask

\* the 8-bit code of a descriptor of the current result (none in the 16 scheme)
Code8(t) == IF algorithm = "47" THEN t.bitmask8 ELSE 0

IfPresent(img) == IF img = NoImage THEN <<>> ELSE <<img>>

\* C11: in a quadrant with at least one cardinal flag false the layers are
\* main (if present), then the vertical edge raster if the vertical flag is
\* false, then the horizontal edge raster if the horizontal flag is false,
\* and nothing else; so the isolated tile of the 16 scheme with opaque main,
\* top and left shows left's colour in its top-left quadrant.
C11_EdgeLayerOrder ==
    Generated =>
        /\ \A i \in 1..Len(result.tiles) : \A q \in Quadrants :
              LET t == result.tiles[i]
                  hasVert  == Has(Code4(t), q.vbit)
                  hasHoriz == Has(Code4(t), q.hbit)
              IN  ~(hasVert /\ hasHoriz) =>
                     QuadrantLayers(result.canvas, t, q)
                       = IfPresent(images["main"])
                            \o (IF hasVert THEN <<>> ELSE IfPresent(images[q.vslot]))
                            \o (IF hasHoriz THEN <<>> ELSE IfPresent(images[q.hslot]))
        /\ (algorithm = "16" /\ images["main"] = Solid("main") /\ images["top"] = Solid("top")
              /\ images["left"] = Solid("left")) =>
              \A p \in (0..(EffTileSize \div 2 - 1)) \X (0..(EffTileSize \div 2 - 1)) :
                 PixelAt(result.canvas, p[1], p[2]) = Paint(SlotColour["left"], 255)

\* the isolated tile was generated from opaque main, top and left
C11_Witness ==
    /\ Generated /\ algorithm = "16"
    /\ images = Load([s \in SLOTS |-> IF s \in {"main", "top", "left"} THEN "solid" ELSE "none"])
    /\ result.tiles[1].bitmask = 0
    /\ PixelAt(result.canvas, 0, 0) = [r |-> 0, g |-> 0, b |-> 255, a |-> 255]


\* C12: in the 16 scheme, with main an opaque solid colour C (in particular
\* when main is the only raster supplied), every pixel of the tile of code
\* 0b1111 equals C: each of its four quadrants is one draw of main, with no
\* edge overlay and no blend.
C12_InteriorIsMain ==
    (Generated /\ algorithm = "16" /\ images["main"] = Solid("main")) =>
        LET t == result.tiles[16] IN
        /\ t.bitmask = 15
        /\ \A q \in Quadrants : QuadrantLayers(result.canvas, t, q) = <<images["main"]>>
        /\ \A p \in CellPixels(15, 4, EffTileSize) :
              PixelAt(result.canvas, p[1], p[2]) = Paint(SlotColour["main"], 255)

\* the 16-tile atlas was generated from main alone
C12_Witness ==
    /\ Generated /\ algorithm = "16"
    /\ images = Load([s \in SLOTS |-> IF s = "main" THEN "solid" ELSE "none"])
    /\ PixelAt(result.canvas, 4 * EffTileSize - 1, 4 * EffTileSize - 1) = [r |-> 255, g |-> 0, b |-> 0, a |-> 255]


\* the descriptor of the single tile of a compositor run
RunTile == [x |-> 0, y |-> 0, width |-> tileSize, height |-> tileSize]

TopLeft == CHOOSE q \in Quadrants : q.qcol = 0 /\ q.qrow = 0

QuadrantPixels(qs) == (0..(qs - 1)) \X (0..(qs - 1))

\* the top-left quadrant of the run is a concave corner whose two edge rasters exist
TopLeftConcave ==
    /\ tile # NoCanvas
    /\ Has(bm8, N_) /\ Has(bm8, W_) /\ ~Has(bm8, NW_)
    /\ images["top"] # NoImage /\ images["left"] # NoImage

\* c is n / d rounded to the nearest integer, halves up
IsRounded(c, n, d) == 2 * d * c <= 2 * n + d /\ 2 * n + d < 2 * d * (c + 1)

\* C13: in a concave-corner quadrant with both edge rasters present, where
\* both have non-zero alpha aV and aH the blended layer has, per channel,
\* round((cV*aV + cH*aH) / (aV + aH)) and alpha max(aV, aH); top opaque red
\* and left opaque blue give (128, 0, 128) at alpha 255 in the quadrant.
C13_BlendFormula ==
    TopLeftConcave =>
        LET layers == QuadrantLayers(tile, RunTile, TopLeft)
            blend  == layers[Len(layers)]
            v      == images["top"].px[<<0, 0>>]
            h      == images["left"].px[<<0, 0>>]
        IN  /\ (v.a > 0 /\ h.a > 0) =>
                  \A p \in QuadrantPixels(tileSize \div 2) :
                     /\ IsRounded(blend.px[p].r, v.r * v.a + h.r * h.a, v.a + h.a)
                     /\ IsRounded(blend.px[p].g, v.g * v.a + h.g * h.a, v.a + h.a)
                     /\ IsRounded(blend.px[p].b, v.b * v.a + h.b * h.a, v.a + h.a)
                     /\ blend.px[p].a = (IF v.a >= h.a THEN v.a ELSE h.a)
            /\ (images["top"] = Flat(Red, 255) /\ images["left"] = Flat(Blue, 255)) =>
                  \A p \in QuadrantPixels(tileSize \div 2) :
                     PixelAt(tile, p[1], p[2]) = [r |-> 128, g |-> 0, b |-> 128, a |-> 255]

\* the corner N+W without NW was composited from opaque red top and opaque blue left
C13_Witness ==
    /\ TopLeftConcave /\ bm8 = 65
    /\ images["top"] = Flat(Red, 255) /\ images["left"] = Flat(Blue, 255)
    /\ PixelAt(tile, 0, 0) = [r |-> 128, g |-> 0, b |-> 128, a |-> 255]


\* the result is what the 47-tile builder makes: 47 tiles named tile-47-i on 8 x 6 cells
Built47 ==
    /\ Len(result.tiles) = 47
    /\ result.canvas.width = 8 * EffTileSize /\ result.canvas.height = 6 * EffTileSize
    /\ \A i \in 1..47 : result.tiles[i].label = <<"tile-47-", i - 1>>

\* the result is what the 16-tile builder makes: 16 labelled tiles on 4 x 4 cells
Built16 ==
    /\ Len(result.tiles) = 16
    /\ result.canvas.width = 4 * EffTileSize /\ result.canvas.height = 4 * EffTileSize
    /\ \A i \in 1..16 : result.tiles[i].label = C9_Labels[i]

\* C14: generate uses the 47-tile builder exactly when the scheme value is
\* "47"; for "16" and any other value it uses the 16-tile builder; it never
\* raises an error.
C14_Routing ==
    Generated =>
        /\ ~result.canvas.error
        /\ IF algorithm = "47" THEN Built47 ELSE Built16

\* an unrecognised scheme value produced a 16-tile atlas
C14_Witness ==
    Generated /\ algorithm = "hex" /\ Len(result.tiles) = 16 /\ result.tiles[16].label = "cross"


\* C15: the scheme tag returned with the atlas is "47" when the 47-tile
\* builder produced it and "16" when the 16-tile builder produced it, also
\* when the requested scheme value was unrecognised.
C15_ResolvedTag ==
    Generated => result.algorithm = (IF Len(result.tiles) = 47 THEN "47" ELSE "16")


\* C16: for a tile size below 8 the atlas size and every descriptor's width,
\* height and pixel origin are those of tile size 8; from 8 on they use the
\* tile size unchanged; no error is raised.
C16_Clamp ==
    Generated =>
        LET ts   == IF tileSize < 8 THEN 8 ELSE tileSize
            cols == IF algorithm = "47" THEN 8 ELSE 4
            rows == IF algorithm = "47" THEN 6 ELSE 4
        IN  /\ ~result.canvas.error
            /\ result.canvas.width = cols * ts
            /\ result.canvas.height = rows * ts
            /\ \A i \in 1..Len(result.tiles) :
                  /\ result.tiles[i].width = ts
                  /\ result.tiles[i].height = ts
                  /\ result.tiles[i].x = ((i - 1) % cols) * ts
                  /\ result.tiles[i].y = ((i - 1) \div cols) * ts

\* a 47-tile atlas was generated for tile size 3 with the measures of size 8
C16_Witness ==
    /\ Generated /\ tileSize = 3 /\ algorithm = "47"
    /\ result.canvas.width = 64 /\ result.canvas.height = 48
    /\ result.tiles[47].x = 48 /\ result.tiles[47].y = 40 /\ result.tiles[47].width = 8


\* the pixel rectangles of two descriptors have no pixel in common
Disjoint(s, t) ==
    \/ s.x + s.width <= t.x \/ t.x + t.width <= s.x
    \/ s.y + s.height <= t.y \/ t.y + t.height <= s.y

\* the pixel rectangle of a descriptor lies inside the raster
Inside(t, canvas) ==
    /\ 0 <= t.x /\ t.x + t.width <= canvas.width
    /\ 0 <= t.y /\ t.y + t.height <= canvas.height

\* C18: in every atlas of either scheme the descriptor ids are 0..n-1 in
\* list order, the labels are pairwise distinct, and every descriptor's
\* rectangle lies inside the atlas raster and overlaps no other rectangle.
C18_DescriptorsWellFormed ==
    Generated =>
        LET n == Len(result.tiles) IN
        /\ \A i \in 1..n : result.tiles[i].id = i - 1
        /\ \A i \in 1..n : result.tiles[i].width > 0 /\ Inside(result.tiles[i], result.canvas)
        /\ \A i \in 1..n : \A j \in 1..n :
              i # j => /\ result.tiles[i].label # result.tiles[j].label
                       /\ Disjoint(result.tiles[i], result.tiles[j])

\* a 47-tile atlas whose last descriptor ends at the right edge of the last row
C18_Witness ==
    /\ Generated /\ algorithm = "47" /\ tileSize = 10
    /\ result.tiles[47].id = 46
    /\ result.tiles[47].x + result.tiles[47].width = 70
    /\ result.tiles[47].y + result.tiles[47].height = result.canvas.height


\* quadrant q of the tile of descriptor t got a layer on top of its interior base
ConcaveRendered(t, q) ==
    /\ Has(Code4(t), q.vbit) /\ Has(Code4(t), q.hbit)
    /\ Len(QuadrantLayers(result.canvas, t, q)) = 2

\* C19: a quadrant gets the concave-corner layer exactly when the atlas is
\* built for the 47 scheme, both cardinal flags of the quadrant are set and
\* the quadrant's own diagonal bit is clear in the tile's canonical 8-bit
\* value; this is so for all 47 tiles, and never happens in the 16 scheme.
\* (The layer is visible as a draw call when an edge raster of the quadrant
\* is supplied, which the quantifier requires.)
C19_ConcaveExactly ==
    Generated =>
        \A i \in 1..Len(result.tiles) : \A q \in Quadrants :
            LET t == result.tiles[i] IN
            (images[q.vslot] # NoImage \/ images[q.hslot] # NoImage) =>
                (ConcaveRendered(t, q)
                   <=> /\ algorithm = "47"
                       /\ Has(Code4(t), q.vbit) /\ Has(Code4(t), q.hbit)
                       /\ ~Has(Code8(t), q.dbit))

\* the 47-tile atlas holds the tile with all cardinals and no diagonal, and
\* each of its quadrants got the concave-corner layer
C19_Witness ==
    /\ Generated /\ algorithm = "47" /\ Len(result.tiles) = 47
    /\ \A s \in SLOTS : images[s] # NoImage
    /\ \E i \in 1..47 :
          /\ result.tiles[i].bitmask8 = N_ + E_ + S_ + W_
          /\ \A q \in Quadrants : ConcaveRendered(result.tiles[i], q)


\* C20: in a concave-corner quadrant with both edge rasters supplied, a pixel
\* where exactly one of the two edge rasters has non-zero alpha gets nothing
\* from the edge rasters, main present or absent: it shows main's pixel when
\* main is supplied and stays transparent when it is not.
C20_SingleEdgeUndrawn ==
    TopLeftConcave =>
        LET v == images["top"].px[<<0, 0>>]
            h == images["left"].px[<<0, 0>>]
        IN  ((v.a > 0) # (h.a > 0)) =>
               \A p \in QuadrantPixels(tileSize \div 2) :
                  PixelAt(tile, p[1], p[2])
                     = (IF images["main"] # NoImage THEN Paint(SlotColour["main"], 255)
                        ELSE Transparent)


-----------------------------------------------------------------------------
(* Claims C21..C30                                                         *)

\* the draw calls, in call order, onto quadrant q of the tile of descriptor t
QuadrantOps(canvas, t, q) ==
    SelectSeq(canvas.ops,
              LAMBDA op : /\ op.dx = t.x + q.qcol * (t.width \div 2)
                          /\ op.dy = t.y + q.qrow * (t.height \div 2)
                          /\ op.dw = t.width \div 2 /\ op.dh = t.height \div 2)

\* the draw call reads quadrant q of its source raster
ReadsQuadrant(op, q) ==
    /\ op.sx = q.qcol * (op.img.width \div 2) /\ op.sy = q.qrow * (op.img.height \div 2)
    /\ op.sw = op.img.width \div 2 /\ op.sh = op.img.height \div 2

\* the draw call puts down the blend of quadrant q of the rasters v and h
IsBlendOf(op, q, v, h) ==
    /\ v # NoImage /\ h # NoImage
    /\ \A p \in DOMAIN op.img.px :
          op.img.px[p] = BlendPixel(v.px[<<q.qcol, q.qrow>>], h.px[<<q.qcol, q.qrow>>])

\* C21: each quadrant gets its own flags and rasters: top-left (N, W, top,
\* left), top-right (N, E, top, right), bottom-left (S, W, bottom, left),
\* bottom-right (S, E, bottom, right), with main as the interior source of
\* all four; and every raster drawn into quadrant (qcol, qrow) is read from
\* quadrant (qcol, qrow) of its source.
C21_QuadrantWiring ==
    Generated =>
        \A i \in 1..Len(result.tiles) : \A q \in Quadrants :
            LET t    == result.tiles[i]
                ops  == QuadrantOps(result.canvas, t, q)
                hasV == Has(Code4(t), q.vbit)
                hasH == Has(Code4(t), q.hbit)
                main == images["main"]
                vert == images[q.vslot]
                hori == images[q.hslot]
                direct == {k \in 1..Len(ops) : ops[k].img \in {main, vert, hori}}
            IN  /\ \A k \in direct : ReadsQuadrant(ops[k], q)
                /\ \A k \in (1..Len(ops)) \ direct : IsBlendOf(ops[k], q, vert, hori)
                /\ main # NoImage => (Len(ops) >= 1 /\ ops[1].img = main)
                /\ ~(hasV /\ hasH) =>
                      /\ (\E k \in 1..Len(ops) : ops[k].img = vert) <=> (~hasV /\ vert # NoImage)
                      /\ (\E k \in 1..Len(ops) : ops[k].img = hori) <=> (~hasH /\ hori # NoImage)

\* the isolated tile of a 16-tile atlas from five mixed rasters: its
\* bottom-right quadrant reads quadrant (1, 1) of main, bottom and right
C21_Witness ==
    /\ Generated /\ algorithm = "16"
    /\ images = Load([s \in SLOTS |-> "mixed"])
    /\ LET q   == CHOOSE c \in Quadrants : c.qcol = 1 /\ c.qrow = 1
           ops == QuadrantOps(result.canvas, result.tiles[1], q)
       IN  /\ Len(ops) = 3
           /\ ops[1].img = Mixed("main") /\ ops[2].img = Mixed("bottom") /\ ops[3].img = Mixed("right")
           /\ \A k \in 1..3 : ops[k].sx = 1 /\ ops[k].sy = 1


\* bit k (of weight 2^k = w) of a code, as 0 or 1
BitOf(code, w) == (code \div w) % 2

\* C22: for every descriptor of the 47 scheme, bitmask4 packs the bits
\* N (0x01), E (0x04), S (0x10), W (0x40) of bitmask8 as bit0 = N, bit1 = E,
\* bit2 = S, bit3 = W, and no choice of the diagonal bits changes it.
C22_CardinalPacking ==
    (Generated /\ algorithm = "47") =>
        \A i \in 1..Len(result.tiles) :
            LET t == result.tiles[i] IN
            /\ t.bitmask4 = BitOf(t.bitmask8, 1) + 2 * BitOf(t.bitmask8, 4)
                              + 4 * BitOf(t.bitmask8, 16) + 8 * BitOf(t.bitmask8, 64)
            /\ \A d \in 0..255 :
                  (\A w \in {1, 4, 16, 64} : BitOf(d, w) = BitOf(t.bitmask8, w))
                     => cardinals8to4(d) = t.bitmask4

\* a 47-tile atlas holds the all-neighbours tile with code 15 and the
\* west-only tile with code 8
C22_Witness ==
    /\ Generated /\ algorithm = "47"
    /\ \E i \in 1..47 : result.tiles[i].bitmask8 = 255 /\ result.tiles[i].bitmask4 = 15
    /\ \E i \in 1..47 : result.tiles[i].bitmask8 = W_ /\ result.tiles[i].bitmask4 = 8


Exported == package # NoPackage

\* C24: in an exported package, for every tile i the sprite fileID of its
\* Tile asset, of its RuleTile rule and of its nameFileIdTable line equals
\* the internalID written for sprite i in the texture meta; the RuleTile
\* default sprite and the palette sprite carry the id of tile 0.
C24_SpriteIdsAgree ==
    Exported =>
        LET sprites == package.pngMeta.sprites IN
        /\ Len(sprites) = Len(result.tiles)
        /\ \A i \in 1..Len(sprites) :
              /\ package.tileEntries[i].m_Sprite = sprites[i].internalID
              /\ package.tileEntries[i].m_Name = sprites[i].name
              /\ package.ruleTile.m_TilingRules[i].m_Sprites = <<sprites[i].internalID>>
              /\ package.pngMeta.nameFileIdTable[i].id = sprites[i].internalID
              /\ package.pngMeta.nameFileIdTable[i].name = sprites[i].name
        /\ package.ruleTile.m_DefaultSprite = sprites[1].internalID
        /\ package.palette.m_Data = sprites[1].internalID

\* a 47-tile package whose sprites got different ids
C24_Witness ==
    /\ Exported /\ Len(package.pngMeta.sprites) = 47
    /\ package.pngMeta.sprites[1].internalID # package.pngMeta.sprites[47].internalID
    /\ package.tileEntries[47].m_Sprite = package.pngMeta.sprites[47].internalID


\* the 64-bit id of value n, for 0 <= n < 2^32
SmallId(n) == [hi |-> 0, lo |-> n]

NeighbourOrder == <<NW_, N_, NE_, W_, E_, SW_, S_, SE_>>

\* the neighbour value a hex-encoded int32 stands for (3 when it is none of 0, 1, 2)
RuleValue(hex) ==
    IF hex = <<"0", "0", "000000">> THEN 0
    ELSE IF hex = <<"0", "1", "000000">> THEN 1
    ELSE IF hex = <<"0", "2", "000000">> THEN 2
    ELSE 3

\* the rule accepts the occupancy configuration c: 1 wants the neighbour
\* present, 2 wants it absent, 0 accepts both
RuleMatches(rule, c) ==
    \A k \in 1..8 :
        LET v == RuleValue(rule.m_Neighbors[k]) IN
        \/ v = 0
        \/ v = 1 /\ Has(c, NeighbourOrder[k])
        \/ v = 2 /\ ~Has(c, NeighbourOrder[k])

\* C28: for the 47 scheme every one of the 256 neighbour configurations
\* matches exactly one of the 47 exported rules, and that rule is the one of
\* the tile at index bitmask8ToIndex47(configuration).
C28_RulesPartition ==
    (Exported /\ algorithm = "47" /\ result.algorithm = "47") =>
        LET rules == package.ruleTile.m_TilingRules IN
        /\ Len(rules) = 47
        /\ \A c \in 0..255 :
              {i \in 1..47 : RuleMatches(rules[i], c)} = {bitmask8ToIndex47(c) + 1}

\* the exported 47 rules: the first wants all four cardinals absent and
\* accepts any diagonal, the last wants all eight neighbours present
C28_Witness ==
    /\ Exported /\ algorithm = "47" /\ result.algorithm = "47"
    /\ [k \in 1..8 |-> RuleValue(package.ruleTile.m_TilingRules[1].m_Neighbors[k])]
          = <<0, 2, 0, 2, 2, 0, 2, 0>>
    /\ \A k \in 1..8 : RuleValue(package.ruleTile.m_TilingRules[47].m_Neighbors[k]) = 1


\* the atlas in state.result was generated from the scheme, the tile size
\* and the uploaded rasters that the state holds now
ResultIsCurrent ==
    LET cols == IF algorithm = "47" THEN 8 ELSE 4
        ops  == result.canvas.ops
    IN  /\ result.algorithm = algorithm
        /\ Len(result.tiles) = (IF algorithm = "47" THEN 47 ELSE 16)
        /\ result.canvas.width = cols * Max(8, tileSize)
        /\ \A i \in 1..Len(result.tiles) : result.tiles[i].width = Max(8, tileSize)
        /\ {s \in SLOTS : \E k \in 1..Len(ops) : ops[k].img = Solid(s)}
              = {s \in SLOTS : images[s] # NoImage}

\* the timer state and the runs so far are those of a 300 ms debounce
DebounceSafe ==
    \* at most one timer is waiting; it is the latest one, set for 300 ms after the latest change
    /\ Cardinality(timers) <= 1
    /\ \A x \in timers : x.id = genTimer /\ x.due = lastChange + DebounceMs
    \* a run comes 300 ms or more after the latest change, so never inside a burst,
    \* and two runs are never started by the same change
    /\ \A k \in 1..Len(runs) :
          /\ runs[k].time >= runs[k].since + DebounceMs
          /\ k > 1 => runs[k].since >= runs[k - 1].time
    \* once no timer waits, a run has been made after the last change, and the
    \* atlas is the one of the state as it is
    /\ timers = {} =>
          /\ runs # <<>> /\ runs[Len(runs)].since = lastChange
          /\ (\E s \in SLOTS : images[s] # NoImage) => ResultIsCurrent

\* C23: auto-generation is debounced by 300 ms: each scheduleAutoGenerate
\* call cancels the waiting timer, so at most one timer waits at any time; a
\* burst of changes less than 300 ms apart leads to exactly one doGenerate
\* run, which comes after the last change and uses the state of that moment.
C23_Debounce ==
    /\ []DebounceSafe
    /\ (timers # {}) ~> (timers = {})

\* two changes 100 ms apart were followed by one run, 300 ms after the second
C23_Witness ==
    /\ timers = {} /\ genTimer = 3 /\ Len(runs) = 1
    /\ lastChange = TickMs /\ runs[1].time = TickMs + DebounceMs
    /\ result # NoResult /\ result.algorithm = "47"


\* C26: whenever an export handler runs with state.result set, the atlas
\* exported was generated with the scheme and the tile size the state holds
\* at the click, which are the ones used for the file name and the rules;
\* also when the click falls between a change and the debounced regeneration.
C26_ExportIsCurrent ==
    exported # NoExport =>
        /\ Len(exported.tiles) = (IF exported.algorithm = "47" THEN 47 ELSE 16)
        /\ \A i \in 1..Len(exported.tiles) : exported.tiles[i].width = Max(8, exported.tileSize)


\* the 8-neighbour occupancy of a cell, neighbours outside the grid absent
RawOccupancy(g, row, col) ==
    LET present(n) == /\ row + n.dr \in 0..(GRID_ROWS - 1)
                      /\ col + n.dc \in 0..(GRID_COLS - 1)
                      /\ g[<<row + n.dr, col + n.dc>>]
        bit(w) == IF \E n \in Neighbours : n.w = w /\ present(n) THEN w ELSE 0
    IN  bit(1) + bit(2) + bit(4) + bit(8) + bit(16) + bit(32) + bit(64) + bit(128)

\* C27: in the grid painter with the 47 algorithm, for every filled cell the
\* call of composeQuadrants gets bm8 = normalize47(raw 8-neighbour occupancy,
\* cells outside the 12 x 10 grid absent) and bm4 = the cardinal bits of
\* bm8, which are the codes of the atlas tile at index bitmask8ToIndex47(raw).
C27_PainterCodes ==
    (mapCalls # <<>> /\ algorithm = "47") =>
        /\ {<<mapCalls[k].row, mapCalls[k].col>> : k \in 1..Len(mapCalls)}
              = {c \in DOMAIN grid : grid[c]}
        /\ \A k \in 1..Len(mapCalls) :
              LET call == mapCalls[k]
                  raw  == RawOccupancy(grid, call.row, call.col)
                  idx  == bitmask8ToIndex47(raw)
              IN  /\ call.bm8 = normalize47(raw)
                  /\ call.bm4 = BitOf(call.bm8, 1) + 2 * BitOf(call.bm8, 4)
                                  + 4 * BitOf(call.bm8, 16) + 8 * BitOf(call.bm8, 64)
                  /\ idx \in 0..46
                  /\ NORMALIZED_47[idx + 1] = call.bm8
                  /\ cardinals8to4(NORMALIZED_47[idx + 1]) = call.bm4
                  /\ call.tx = call.col * call.ts /\ call.ty = call.row * call.ts

\* the inner cell with N, E and the stray diagonals SE and NW around it was
\* rendered with the codes of the corner tile N+E without NE
C27_Witness ==
    /\ algorithm = "47" /\ grid = PatternGrid(<<4, 5>>, N_ + E_ + SE_ + NW_)
    /\ \E k \in 1..Len(mapCalls) :
          /\ mapCalls[k].row = 4 /\ mapCalls[k].col = 5
          /\ mapCalls[k].bm8 = N_ + E_ /\ mapCalls[k].bm4 = 3


\* C29: a mousedown on a cell gives it the negation of its value; every
\* cell the pointer moves over during that stroke gets that same value; a
\* mousemove outside a stroke never changes the grid; and the grid stays
\* 10 rows by 12 columns through strokes, Clear and Fill.
C29_Strokes ==
    LET others(cell) == \A c \in DOMAIN grid : c # cell => grid[c] = prevGrid[c] IN
    /\ DOMAIN grid = (0..9) \X (0..11)
    /\ \A c \in DOMAIN grid : grid[c] \in BOOLEAN
    /\ (event.type = "mousedown" /\ event.cell # NoCell) =>
          /\ grid[event.cell] = ~prevGrid[event.cell]
          /\ strokeValue.value = grid[event.cell]
          /\ others(event.cell)
    /\ (event.type = "mousemove" /\ event.cell # NoCell /\ strokeValue.open /\ strokeValue.onCell) =>
          /\ grid[event.cell] = strokeValue.value
          /\ others(event.cell)
    /\ (event.type = "mousemove" /\ ~strokeValue.open) => grid = prevGrid

\* a stroke that began by erasing the last cell of a filled grid has just
\* erased the first cell too
C29_Witness ==
    /\ event = [type |-> "mousemove", cell |-> <<0, 0>>]
    /\ strokeValue = [open |-> TRUE, onCell |-> TRUE, value |-> FALSE]
    /\ prevGrid[<<0, 0>>] /\ ~grid[<<0, 0>>] /\ ~grid[<<9, 11>>] /\ grid[<<5, 5>>]


\* C30: after any sequence of language-button clicks whose dictionary
\* fetches all succeed, in whatever order they complete, once no load is
\* under way the active dictionary language, the document language and the
\* stored preference equal state.lang, the language shown on the button.
C30_LangSettles ==
    (loads.calls = <<>> /\ ~loads.failed) =>
        /\ i18nLang = lang
        /\ docLang = lang
        /\ storedLang = lang

====
